---- MODULE Spec2Model ----
(***************************************************************************)
(* A model of the pipeline executor of pynix.sh                            *)
(* (src/app/core/shell/pipeline.py, execute_pipeline and its helpers),     *)
(* with the builtin dispatch of src/app/commands/builtins.py and the       *)
(* redirect priming of src/app/parsing/redirections.py.                    *)
(*                                                                         *)
(* The executor is the shell's main thread.  Builtin stages are threads    *)
(* of the shell process, external stages are child processes.  Stages are  *)
(* numbered from 0 as in the source; pipe k connects stage k to stage k+1. *)
(***************************************************************************)
EXTENDS Integers, Sequences, FiniteSets, TLC

\* ------------------------------------------------------------------ bounds
MaxStages == 3
MaxRedirs == 2
DataLen == 2
\* A pipe holds less than a first stage writes, so that a writer can block.
PipeCap == DataLen - 1

\* The files append_history_to_file is given.
HistFiles == {"histfile", "other"}

\* ------------------------------------------------------- the data model
\* Command names.  "type" stands for the builtins that write a line and
\* return 0 or 1, "cat" for an external program that is on the PATH and
\* copies its input, "nosuch" for a name that resolves to no executable.
Builtins == {"exit", "type", "cd"}
Externals == {"cat", "nosuch"}
Cmds == Builtins \cup Externals

is_builtin(cmd) == cmd \in Builtins

\* subprocess.Popen raises FileNotFoundError for a name not on the PATH.
OnPath(cmd) == cmd = "cat"
\* "noperm" is a file that is there but may not be executed: Popen and
\* subprocess.run raise PermissionError for it.
Denied(cmd) == cmd = "noperm"

\* Redirect lists in appearance order, each entry (path, mode): up to
\* MaxRedirs targets for stdout, and none or one for stderr.
StdoutTargets == << <<"f", "w">>, <<"g", "a">>, <<"h", "w">>, <<"k", "a">> >>
StdoutRedirLists == {SubSeq(StdoutTargets, 1, m) : m \in 0..MaxRedirs}
StderrRedirLists == {<<>>, << <<"e", "w">> >>}
\* "x" is a path in a directory that does not exist: open() raises
\* FileNotFoundError for it in either mode.
Unopenable == {"x"}
Paths == {"e", "f", "g", "h", "k"}

\* segment = {'parts': [...], 'stdout_redirs': [...], 'stderr_redirs': [...]}
\* parts is the command word alone (arguments do not reach the executor's
\* decisions) or empty.
Segments ==
    [parts : {<<>>} \cup {<<c>> : c \in Cmds},
     stdout_redirs : StdoutRedirLists,
     stderr_redirs : StderrRedirLists]

NRedirs(seg) == Len(seg.stdout_redirs) + Len(seg.stderr_redirs)

\* The pipelines explored: up to MaxStages stages of any command, of which
\* the first or the last may name redirect targets, at most MaxRedirs in all;
\* in the longest pipelines only the last stage names targets.
RedirPositions(n) == IF n < MaxStages THEN {0, n-1} ELSE {n-1}
Plain(seg) == NRedirs(seg) = 0
PlainSegments == {s \in Segments : Plain(s)}
RedirSegments == {s \in Segments : ~Plain(s) /\ NRedirs(s) <= MaxRedirs}
PipelinesOfLen(n) ==
    [0..(n-1) -> PlainSegments] \cup
    { [j \in 0..(n-1) |-> IF j = r THEN s ELSE p[j]] :
        r \in RedirPositions(n), s \in RedirSegments, p \in [0..(n-1) -> PlainSegments] }
Pipelines == UNION { PipelinesOfLen(n) : n \in 0..MaxStages }

\* Descriptors of the shell process: the two ends of pipe k, and the file
\* objects opened for the last stage's active redirects.
None == <<-1, "none">>
FileOut == <<-1, "out">>
FileErr == <<-1, "err">>
PipeR(k) == <<k, "r">>
PipeW(k) == <<k, "w">>
PipeFds == (0..(MaxStages-2)) \X {"r", "w"}
Desc == PipeFds \cup {FileOut, FileErr}
IsPipeFd(d) == d[1] >= 0

\* Exit statuses a stage can produce on its own.
ExitCodes == {0, 1}

\* What a stage writes.  A token is <<k, path>>: the k-th item of output,
\* and the stages it has passed through, first to last.
SourceToken(k, i) == <<k, <<i>>>>
Through(tok, i) == <<tok[1], Append(tok[2], i)>>

\* ------------------------------------------------------------- the state
VARIABLES
    pc,             \* the executor's position in execute_pipeline
    pipeline,       \* the argument of execute_pipeline: stage index -> segment
    i,              \* the dispatch loop's index
    pipes,          \* indices of the pipes created: pipes[k] = (PipeR(k), PipeW(k))
    pipe_fds,       \* the executor's bookkeeping of pipe descriptors it must close
    fdst,           \* per descriptor of the shell process: st ("none", "exec": held by
                    \* the executor, "task": held by a thread, "orphan": a file object
                    \* nobody references, "closed"), by (who called close on it),
                    \* given ("task" or "child": handed over, "lent": passed to a thread
                    \* that does not close it)
    processes,      \* Popen objects in spawn order, named by stage index
    threads,        \* (thread, result_holder) pairs in start order, named by stage index
    redirect_files, \* file objects opened for the last stage
    io,             \* stage -> the stdin/stdout/stderr arguments chosen for it
    dispatched,     \* stages whose I/O was determined and that were handed to a dispatch
    thr,            \* stage -> "none" | "running" | "finished"
    proc,           \* stage -> "none" | "running" | "exited" | "killed" (by SIGPIPE)
    result_holder,  \* stage -> result_holder['returncode'] of its thread
    returncode,     \* stage -> Popen.returncode, defined once wait() has returned
    joined,         \* threads the executor has joined
    waited,         \* processes the executor has waited for
    buf,            \* pipe index -> tokens in the pipe
    emitted,        \* tokens written so far by a first-stage external program
    fs,             \* path -> [exists, data]
    opens,          \* every open() of a redirect target, in order
    diag,           \* what was printed on the shell's error stream
    cwd,            \* the shell's working directory
    ret             \* the value execute_pipeline returned (pc = "done")

\* The parsing functions (tokenizer.py, redirections.py): an argument and
\* the values computed from it.
VARIABLES
    fn_pc,          \* which function has been applied so far
    command,        \* a command line: a sequence of characters
    tokens,         \* tokenize_command(command)
    token_segments, \* split_by_pipes(tokens)
    segments,       \* split_command_by_and_or(command)
    lines,          \* split_on_unquoted_newlines(command)
    parts,          \* the words of one pipeline stage
    parsed,         \* parse_redirection(parts)
    reparsed        \* parse_redirection of the cleaned words of parsed

\* run_command (orchestration/runner.py) and the namespace it shares with
\* the embedded language.
VARIABLES
    run_pc,         \* "idle" | "loop" | "shell" (inside execute_pipeline) |
                    \* "returned" | "exited" (SystemExit left run_command)
    operator,       \* the operator of the segment the loop is at
    cmd_segment,    \* the kind of that segment
    seg_no,         \* how many segments the loop has taken from the line
    last_returncode,\* run_command's running status
    namespace,      \* the namespace's entry '__last_returncode__': <<>> or <<status>>
    outcome,        \* what execute_segment did with the previous segment
    exit_ran,       \* an exit builtin has executed in this line
    ran_after_exit  \* a segment executed after an exit builtin had executed

\* The module state of commands/history.py.
VARIABLES
    command_history,     \* the deque of commands, oldest first
    last_appended_index, \* the global of append_history_to_file
    history_files,       \* filepath -> the commands written to it, in order
    added,               \* how many commands add_to_history was given; they
                         \* are numbered 1, 2, ... in the order they were added
    unsaved,             \* the commands added since the last append_history_to_file
    appended             \* the last append_history_to_file: its filepath, what it
                         \* wrote (new_cmds), what was unsaved before it (due) and
                         \* what of that the history still held (held)

\* The process environment and the module state of commands/builtins.py.
VARIABLES
    environ,        \* os.environ: PATH (its entries, first to last), and
                    \* VIRTUAL_ENV and PYTHONHOME (<<>> when not set, else <<value>>)
    venv_oldvars,   \* the dict _venv_oldvars: <<>> when empty, else <<PATH saved>>
    chain_path,     \* <<>> when no environment activated by the builtin is active,
                    \* else <<PATH before the first activate of the chain, the
                    \* number of activates in the chain>>
    last_call       \* the last activate or deactivate: op, arg, ok (what the
                    \* handler returned), and environ and chain_path before it

execvars == <<pc, pipeline, i, pipes, pipe_fds, fdst, processes, threads,
              redirect_files, io, dispatched, thr, proc, result_holder,
              returncode, joined, waited, buf, emitted, fs, opens, diag, cwd, ret>>
parsevars == <<fn_pc, command, tokens, token_segments, segments, lines, parts,
               parsed, reparsed>>
runvars == <<run_pc, operator, cmd_segment, seg_no, last_returncode, namespace,
             outcome, exit_ran, ran_after_exit>>
histvars == <<command_history, last_appended_index, history_files, added, unsaved, appended>>
envvars == <<environ, venv_oldvars, chain_path, last_call>>
modvars == <<histvars, envvars>>
vars == <<execvars, parsevars, runvars, modvars>>

N == Cardinality(DOMAIN pipeline)
StageIdx == 0..(MaxStages-1)

OpenStates == {"exec", "task", "orphan"}
IsOpen(d) == fdst[d].st \in OpenStates

\* Readers and writers of pipe k, in the shell process and in the children:
\* a running child holds duplicates of the descriptors it was spawned with.
HasReader(k) ==
    \/ IsOpen(PipeR(k))
    \/ \E s \in DOMAIN pipeline : proc[s] = "running" /\ io[s].stdin = PipeR(k)
HasWriter(k) ==
    \/ IsOpen(PipeW(k))
    \/ \E s \in DOMAIN pipeline : proc[s] = "running" /\ io[s].stdout = PipeW(k)

FreshFd == [st |-> "none", by |-> {}, given |-> "none"]
NoIo == [stdin |-> None, stdout |-> None, stderr |-> None]

\* The state in which execute_pipeline has not been called.
ExecInit ==
    /\ pc = "idle"
    /\ pipeline = <<>>
    /\ i = 0
    /\ pipes = {}
    /\ pipe_fds = {}
    /\ fdst = [d \in Desc |-> FreshFd]
    /\ processes = <<>>
    /\ threads = <<>>
    /\ redirect_files = <<>>
    /\ io = [s \in StageIdx |-> NoIo]
    /\ dispatched = {}
    /\ thr = [s \in StageIdx |-> "none"]
    /\ proc = [s \in StageIdx |-> "none"]
    /\ result_holder = [s \in StageIdx |-> 0]
    /\ returncode = <<>>
    /\ joined = {}
    /\ waited = {}
    /\ buf = [k \in 0..(MaxStages-2) |-> <<>>]
    /\ emitted = 0
    /\ fs = [p \in Paths |-> [exists |-> FALSE, data |-> <<>>]]
    /\ opens = <<>>
    /\ diag = {}
    /\ cwd = "start"
    /\ ret = 0

EmptyParse == [cleaned |-> <<>>, stdout_redirs |-> <<>>, stderr_redirs |-> <<>>]
\* No parsing function has been given an argument.
ParseIdle ==
    /\ fn_pc = "idle"
    /\ command = <<>>
    /\ tokens = <<>>
    /\ token_segments = <<>>
    /\ segments = <<>>
    /\ lines = <<>>
    /\ parts = <<>>
    /\ parsed = EmptyParse
    /\ reparsed = EmptyParse

\* What execute_segment did with the segment the loop is at: what is
\* "skipped", "running" (inside execute_pipeline) or "ran"; own is the status
\* the segment's own execution produced; before and ns_before are
\* last_returncode and the namespace entry when it was taken; prev says of
\* the segment taken before it whether it was "skipped", a "pipeline" that
\* ran, or something "other" that ran ("none": there was none).
NoOutcome ==
    [what |-> "none", own |-> 0, before |-> 0, ns_before |-> <<>>, prev |-> "none"]

\* run_command has not been called.
RunIdle ==
    /\ run_pc = "idle"
    /\ operator = "None"
    /\ cmd_segment = "none"
    /\ seg_no = 0
    /\ last_returncode = 0
    /\ namespace = <<>>
    /\ outcome = NoOutcome
    /\ exit_ran = FALSE
    /\ ran_after_exit = FALSE

\* history.py imported, nothing added.
NoAppend == [filepath |-> "", new_cmds |-> <<>>, due |-> <<>>, held |-> <<>>]
HistIdle ==
    /\ command_history = <<>>
    /\ last_appended_index = 0
    /\ history_files = [f \in HistFiles |-> <<>>]
    /\ added = 0
    /\ unsaved = <<>>
    /\ appended = NoAppend

\* The environment of a shell started outside any virtual environment.
NoCall == [op |-> "none", arg |-> "", ok |-> TRUE,
           before |-> [PATH |-> <<>>, VIRTUAL_ENV |-> <<>>, PYTHONHOME |-> <<>>],
           chain |-> <<>>]
EnvIdle ==
    /\ environ = [PATH |-> <<"/usr/bin">>, VIRTUAL_ENV |-> <<>>, PYTHONHOME |-> <<>>]
    /\ venv_oldvars = <<>>
    /\ chain_path = <<>>
    /\ last_call = NoCall

ModIdle == HistIdle /\ EnvIdle

Init == ExecInit /\ ParseIdle /\ RunIdle /\ ModIdle

\* ------------------------------------------------- the executor's helpers
Command(seg) == seg.parts[1]

\* validate_pipeline_commands: the first stage whose command is cd or exit,
\* or -1 when the pipeline is valid (a pipeline of one stage always is).
Offenders(p) ==
    {j \in DOMAIN p : p[j].parts # <<>> /\ Command(p[j]) \in {"cd", "exit"}}
FirstOffender(p) == CHOOSE j \in Offenders(p) : \A m \in Offenders(p) : j <= m

\* A validation that looks at the first stage only.
validate_first_stage_only(p) ==
    IF Cardinality(DOMAIN p) <= 1 THEN TRUE ELSE 0 \notin Offenders(p)
validate_pipeline_commands(p) ==
    IF Cardinality(DOMAIN p) <= 1 THEN TRUE ELSE Offenders(p) = {}

\* create_pipeline_pipes: n-1 pipes for n commands.
\* One pipe per command instead of one per adjacent pair.
create_n_pipes(n_commands) == 0..(n_commands - 1)
create_pipeline_pipes(n_commands) == 0..(n_commands - 2)

\* Every later stage reading the first pipe.
get_stdin_first_pipe(j) ==
    IF j = 0 THEN None ELSE PipeR(0)
get_stdin_for_command(j) ==
    IF j = 0 THEN None ELSE PipeR(j - 1)

NoSpec == <<>>
get_stdout_for_command(j, n_commands, stdout_spec) ==
    IF j = n_commands - 1
    THEN (IF stdout_spec # NoSpec THEN FileOut ELSE None)
    ELSE PipeW(j)

\* A stderr binding that ignores the position of the stage.
get_stderr_any_stage(j, n_commands, stderr_spec) ==
    IF stderr_spec # NoSpec THEN FileErr ELSE None
get_stderr_for_command(j, n_commands, stderr_spec) ==
    IF j = n_commands - 1 /\ stderr_spec # NoSpec THEN FileErr ELSE None

\* close_parent_pipe_fds: the descriptors among stdin and stdout that are
\* tracked pipe ends.
\* Closing the read end only.
close_parent_stdin_only(stdin_arg, stdout_arg, fds) == {stdin_arg} \cap fds
close_parent_pipe_fds(stdin_arg, stdout_arg, fds) == {stdin_arg, stdout_arg} \cap fds

\* redirections.py: the earlier entries are primed, the last one is active.
EarlierRedirects(redirs) ==
    IF redirs = <<>> THEN <<>> ELSE SubSeq(redirs, 1, Len(redirs) - 1)
get_active_redirect_spec(redirs) ==
    IF redirs = <<>> THEN NoSpec ELSE redirs[Len(redirs)]

\* open(path, mode) on the file system: "w" creates or truncates, "a"
\* creates and keeps what is there.
\* An open() that truncates in either mode.
OpenFile_Truncating(f, spec) ==
    [f EXCEPT ![spec[1]] = [exists |-> TRUE, data |-> <<>>]]
OpenFile(f, spec) ==
    [f EXCEPT ![spec[1]] =
        [exists |-> TRUE, data |-> IF spec[2] = "w" THEN <<>> ELSE @.data]]
RECURSIVE OpenAll(_, _)
OpenAll(f, specs) ==
    IF specs = <<>> THEN f ELSE OpenAll(OpenFile(f, Head(specs)), Tail(specs))

\* The first of a list of (path, mode) whose open() raises, or 0.
FirstFailing(specs) ==
    LET failing == {m \in 1..Len(specs) : specs[m][1] \in Unopenable}
    IN  IF failing = {} THEN 0 ELSE CHOOSE m \in failing : \A o \in failing : m <= o

OpenEvent(spec, how, j, busy) ==
    [path |-> spec[1], mode |-> spec[2], how |-> how, stage |-> j, concurrent |-> busy]
OpenEvents(specs, how, j, busy) ==
    [m \in 1..Len(specs) |-> OpenEvent(specs[m], how, j, busy)]

\* The path a redirect file object writes to.
PathOf(d) ==
    IF d = FileOut
    THEN get_active_redirect_spec(pipeline[N-1].stdout_redirs)[1]
    ELSE get_active_redirect_spec(pipeline[N-1].stderr_redirs)[1]

\* get_pipeline_returncode(processes, threads)
Last(seq) == seq[Len(seq)]
get_pipeline_returncode(procs, thrs) ==
    IF procs # <<>> THEN returncode[Last(procs)]
    ELSE IF thrs # <<>> THEN result_holder[Last(thrs)]
    ELSE 0

\* The order of the four steps that end execute_pipeline.
\* Returning without waiting for the subprocesses.
CleanupOrder_NoWait == <<"close_remaining", "join", "close_files">>
\* Returning without joining the builtin threads.
CleanupOrder_NoJoin == <<"close_remaining", "wait", "close_files">>
\* Going to the joins without close_remaining_pipe_fds.
CleanupOrder_NoCloseRemaining == <<"join", "wait", "close_files">>
\* Waiting for the subprocesses before joining the threads.
CleanupOrder_WaitFirst == <<"close_remaining", "wait", "join", "close_files">>
CleanupOrder == <<"close_remaining", "join", "wait", "close_files">>
PhaseAfter(ph) ==
    LET k == CHOOSE m \in 1..Len(CleanupOrder) : CleanupOrder[m] = ph
    IN  IF k = Len(CleanupOrder) THEN "done" ELSE CleanupOrder[k + 1]

\* Where the dispatch loop goes after stage j, whatever happened to it.
\* A loop that stops dispatching at the first stage it could not start.
NextStage_StopOnFailure(j, spawned) == IF spawned THEN j + 1 ELSE N
NextStage(j, spawned) == j + 1

SetSt(f, ds, st) == [d \in Desc |-> IF d \in ds THEN [f[d] EXCEPT !.st = st] ELSE f[d]]
Close(f, ds, who) ==
    [d \in Desc |-> IF d \in ds
                    THEN [f[d] EXCEPT !.st = "closed", !.by = @ \cup {who}]
                    ELSE f[d]]
Give(f, ds, whom) ==
    [d \in Desc |-> IF d \in ds THEN [f[d] EXCEPT !.given = whom] ELSE f[d]]

\* ---------------------------------------------------------- the executor
\* execute_pipeline, lines 217-230: the empty pipeline, validation, and
\* the creation of the pipes.
ExecutePipeline(p) ==
    /\ pc = "idle"
    /\ pipeline' = p
    /\ IF Cardinality(DOMAIN p) = 0
       THEN /\ pc' = "done"
            /\ ret' = 0
            /\ UNCHANGED <<pipes, pipe_fds, fdst, diag>>
       ELSE IF ~validate_pipeline_commands(p)
       THEN /\ diag' = diag \cup
                 {<<Command(p[FirstOffender(p)]), "cannot be used in pipeline">>}
            /\ pc' = "done"
            /\ ret' = 1
            /\ UNCHANGED <<pipes, pipe_fds, fdst>>
       ELSE /\ pipes' = create_pipeline_pipes(Cardinality(DOMAIN p))
            /\ pipe_fds' = {PipeR(k) : k \in pipes'} \cup {PipeW(k) : k \in pipes'}
            /\ fdst' = SetSt(fdst, pipe_fds', "exec")
            /\ pc' = "loop"
            /\ UNCHANGED <<diag, ret>>
    /\ UNCHANGED <<i, processes, threads, redirect_files, io, dispatched, thr,
                   proc, result_holder, returncode, joined, waited,
                   buf, emitted, fs, opens, cwd>>

\* One iteration of the loop of lines 233-264.
Busy == \E s \in StageIdx : thr[s] # "none" \/ proc[s] # "none"

Dispatch ==
    /\ pc = "loop"
    /\ i < N
    /\ LET seg == pipeline[i]
           cmd == Command(seg)
           stdout_spec == get_active_redirect_spec(seg.stdout_redirs)
           stderr_spec == get_active_redirect_spec(seg.stderr_redirs)
           primed == EarlierRedirects(seg.stdout_redirs) \o EarlierRedirects(seg.stderr_redirs)
           stdin_arg == get_stdin_for_command(i)
           stdout_arg == get_stdout_for_command(i, N, stdout_spec)
           stderr_arg == get_stderr_for_command(i, N, stderr_spec)
           active == (IF stdout_arg = FileOut THEN <<stdout_spec>> ELSE <<>>) \o
                     (IF stderr_arg = FileErr THEN <<stderr_spec>> ELSE <<>>)
           files == (IF stdout_arg = FileOut THEN <<FileOut>> ELSE <<>>) \o
                    (IF stderr_arg = FileErr THEN <<FileErr>> ELSE <<>>)
           opened == SetSt(fdst, {files[m] : m \in 1..Len(files)}, "exec")
           std == close_parent_pipe_fds(stdin_arg, stdout_arg, pipe_fds)
           bad == FirstFailing(primed \o active)
       IN
       IF seg.parts = <<>>
       THEN /\ i' = i + 1
            /\ pc' = IF i' >= N THEN CleanupOrder[1] ELSE "loop"
            /\ UNCHANGED <<pipe_fds, fdst, processes, threads, redirect_files, io,
                           dispatched, thr, proc, fs, opens, diag>>
       ELSE IF bad # 0
       THEN \* open() raises in prime_earlier_redirects or in get_stdout_for_command
            \* / get_stderr_for_command: nothing in execute_pipeline catches it.
            \* The files before the failing one were opened; an active stdout
            \* file opened before a failing stderr open is referenced only by
            \* the list redirect_files, which is lost with the frame.
            LET before == SubSeq(primed \o active, 1, bad - 1)
                nprimed == IF bad - 1 < Len(primed) THEN bad - 1 ELSE Len(primed)
                got == SubSeq(files, 1, bad - 1 - nprimed)
            IN
            /\ fs' = OpenAll(fs, before)
            /\ opens' = opens \o OpenEvents(SubSeq(primed, 1, nprimed), "prime", i, Busy)
                              \o OpenEvents(SubSeq(active, 1, bad - 1 - nprimed), "active", i, Busy)
            /\ fdst' = SetSt(fdst, {got[m] : m \in 1..Len(got)}, "orphan")
            /\ pc' = "raised"
            /\ UNCHANGED <<i, pipe_fds, processes, threads, redirect_files, io,
                           dispatched, thr, proc, diag>>
       ELSE /\ fs' = OpenAll(OpenAll(fs, primed), active)
            /\ opens' = opens \o OpenEvents(primed, "prime", i, Busy)
                              \o OpenEvents(active, "active", i, Busy)
            /\ io' = [io EXCEPT ![i] = [stdin |-> stdin_arg, stdout |-> stdout_arg,
                                        stderr |-> stderr_arg]]
            /\ dispatched' = dispatched \cup {i}
            /\ IF is_builtin(cmd)
               THEN \* execute_builtin_in_pipeline: both pipe descriptors are
                    \* wrapped in file objects and dropped from pipe_fds; the
                    \* thread is given stdout, which it is to close, and is
                    \* lent stderr; nobody keeps stdin.
                    /\ fdst' = Give(Give(SetSt(SetSt(opened, {stdin_arg} \cap PipeFds, "orphan"),
                                               {stdout_arg} \cap PipeFds, "task"),
                                         {stdout_arg} \cap Desc, "task"),
                                    {stderr_arg} \cap Desc, "lent")
                    /\ pipe_fds' = pipe_fds \ {stdin_arg, stdout_arg}
                    /\ thr' = [thr EXCEPT ![i] = "running"]
                    /\ threads' = Append(threads, i)
                    /\ redirect_files' = redirect_files \o files
                    /\ i' = NextStage(i, TRUE)
                    /\ pc' = IF i' >= N THEN CleanupOrder[1] ELSE "loop"
                    /\ UNCHANGED <<processes, proc, diag>>
               ELSE IF OnPath(cmd)
               THEN \* execute_external_in_pipeline: the child holds duplicates,
                    \* close_parent_pipe_fds closes the parent's pipe ends.
                    /\ fdst' = Close(Give(opened, {stdin_arg, stdout_arg, stderr_arg} \cap Desc,
                                          "child"),
                                     std, "exec")
                    /\ pipe_fds' = pipe_fds \ std
                    /\ proc' = [proc EXCEPT ![i] = "running"]
                    /\ processes' = Append(processes, i)
                    /\ redirect_files' = redirect_files \o files
                    /\ i' = NextStage(i, TRUE)
                    /\ pc' = IF i' >= N THEN CleanupOrder[1] ELSE "loop"
                    /\ UNCHANGED <<threads, thr, diag>>
               ELSE IF Denied(cmd)
               THEN \* Popen raises PermissionError, which the except clause
                    \* for FileNotFoundError does not catch: it leaves
                    \* execute_pipeline; the redirect files are lost with it.
                    /\ fdst' = SetSt(fdst, {files[m] : m \in 1..Len(files)}, "orphan")
                    /\ pc' = "raised"
                    /\ UNCHANGED <<i, pipe_fds, processes, threads, redirect_files,
                                   thr, proc, diag>>
               ELSE \* FileNotFoundError
                    /\ diag' = diag \cup {<<cmd, "command not found">>}
                    /\ fdst' = opened
                    /\ redirect_files' = redirect_files \o files
                    /\ i' = NextStage(i, FALSE)
                    /\ pc' = IF i' >= N THEN CleanupOrder[1] ELSE "loop"
                    /\ UNCHANGED <<pipe_fds, processes, threads, thr, proc>>
    /\ UNCHANGED <<pipeline, pipes, result_holder, returncode, joined,
                   waited, buf, emitted, cwd, ret>>

\* close_remaining_pipe_fds: os.close on every descriptor still tracked.
CloseRemainingPipeFds ==
    /\ pc = "close_remaining"
    /\ fdst' = Close(fdst, pipe_fds, "exec")
    /\ pc' = PhaseAfter("close_remaining")
    /\ UNCHANGED <<pipeline, i, pipes, pipe_fds, processes, threads,
                   redirect_files, io, dispatched, thr, proc, result_holder,
                   returncode, joined, waited, buf, emitted, fs, opens, diag, cwd, ret>>

\* wait_for_all_threads: join the threads in start order.
Pending(seq, done) == {m \in 1..Len(seq) : seq[m] \notin done}
FirstPending(seq, done) ==
    seq[CHOOSE m \in Pending(seq, done) : \A o \in Pending(seq, done) : m <= o]

WaitForAllThreads ==
    /\ pc = "join"
    /\ IF Pending(threads, joined) = {}
       THEN /\ pc' = PhaseAfter("join")
            /\ UNCHANGED joined
       ELSE /\ thr[FirstPending(threads, joined)] = "finished"
            /\ joined' = joined \cup {FirstPending(threads, joined)}
            /\ UNCHANGED pc
    /\ UNCHANGED <<pipeline, i, pipes, pipe_fds, fdst, processes, threads,
                   redirect_files, io, dispatched, thr, proc, result_holder,
                   returncode, waited, buf, emitted, fs, opens, diag, cwd, ret>>

\* wait_for_all_processes: proc.wait() in spawn order.  wait() reaps the
\* child and sets returncode: the status the program chose to exit with, or
\* -SIGPIPE when the signal killed it.
WaitForAllProcesses ==
    /\ pc = "wait"
    /\ IF Pending(processes, waited) = {}
       THEN /\ pc' = PhaseAfter("wait")
            /\ UNCHANGED <<waited, returncode>>
       ELSE LET s == FirstPending(processes, waited) IN
            /\ proc[s] \in {"exited", "killed"}
            /\ waited' = waited \cup {s}
            /\ \E rc \in ExitCodes :
                 returncode' = returncode @@ (s :> IF proc[s] = "killed" THEN -13 ELSE rc)
            /\ UNCHANGED pc
    /\ UNCHANGED <<pipeline, i, pipes, pipe_fds, fdst, processes, threads,
                   redirect_files, io, dispatched, thr, proc, result_holder,
                   joined, buf, emitted, fs, opens, diag, cwd, ret>>

\* close_redirect_files, then return get_pipeline_returncode(...).
CloseRedirectFilesAndReturn ==
    /\ pc = "close_files"
    /\ fdst' = Close(fdst, {redirect_files[m] : m \in 1..Len(redirect_files)}, "exec")
    /\ ret' = get_pipeline_returncode(processes, threads)
    /\ pc' = PhaseAfter("close_files")
    /\ UNCHANGED <<pipeline, i, pipes, pipe_fds, processes, threads,
                   redirect_files, io, dispatched, thr, proc, result_holder,
                   returncode, joined, waited, buf, emitted, fs, opens, diag, cwd>>

\* ------------------------------------------------------ a builtin thread
\* The whole of execute_builtin(cmd=..., stdout=..., close_stdout=True,
\* result_holder=...): run_builtin, the result, and the finally clause.
\* The builtin's line of output is buffered by the file object and reaches
\* its destination when the finally clause flushes.  cd changes the working
\* directory when it is given a directory (status 0), returns 0 without
\* moving when it has no argument, and 1 when the directory does not exist.
WritesLine(cmd) == cmd = "type"

BuiltinThread(s) ==
    /\ s \in DOMAIN pipeline
    /\ thr[s] = "running"
    /\ LET cmd == Command(pipeline[s])
           out == io[s].stdout
           line == IF WritesLine(cmd) THEN <<SourceToken(1, s)>> ELSE <<>>
       IN
       /\ \E rc \in ExitCodes :
            /\ cmd = "exit" => rc = 0
            /\ result_holder' = [result_holder EXCEPT ![s] = rc]
            /\ cwd' \in IF cmd = "cd" /\ rc = 0 THEN {cwd, "elsewhere"} ELSE {cwd}
       /\ IF out = None
          THEN UNCHANGED <<fdst, buf, fs>>
          ELSE IF IsPipeFd(out)
          THEN IF line # <<>> /\ ~HasReader(out[1])
               THEN \* flush raises BrokenPipeError, "except: pass" skips close()
                    /\ fdst' = SetSt(fdst, {out}, "orphan")
                    /\ UNCHANGED <<buf, fs>>
               ELSE /\ buf' = [buf EXCEPT ![out[1]] = @ \o line]
                    /\ fdst' = Close(fdst, {out}, "task")
                    /\ UNCHANGED fs
          ELSE /\ fs' = [fs EXCEPT ![PathOf(out)].data = @ \o line]
               /\ fdst' = Close(fdst, {out}, "task")
               /\ UNCHANGED buf
    /\ thr' = [thr EXCEPT ![s] = "finished"]
    /\ UNCHANGED <<pc, pipeline, i, pipes, pipe_fds, processes, threads,
                   redirect_files, io, dispatched, proc, returncode,
                   joined, waited, emitted, opens, diag, ret>>

\* ------------------------------------------------------ a child process
\* An external program that is found copies its standard input to its
\* standard output and exits at end of input; as the first stage it produces
\* DataLen items of its own.  A write to a pipe with no reader kills it
\* (SIGPIPE); a write to a full pipe blocks.
IsSource(s) == io[s].stdin = None
InPipe(s) == io[s].stdin[1]
OutPipe(s) == io[s].stdout[1]
WritesPipe(s) == io[s].stdout # None /\ IsPipeFd(io[s].stdout)

ChildStep(s) ==
    /\ s \in DOMAIN pipeline
    /\ proc[s] = "running"
    /\ IF IsSource(s) THEN emitted < DataLen ELSE buf[InPipe(s)] # <<>>
    /\ LET tok == IF IsSource(s) THEN SourceToken(emitted + 1, s)
                  ELSE Through(Head(buf[InPipe(s)]), s)
           taken == IF IsSource(s) THEN buf ELSE [buf EXCEPT ![InPipe(s)] = Tail(@)]
       IN
       IF WritesPipe(s) /\ ~HasReader(OutPipe(s))
       THEN /\ proc' = [proc EXCEPT ![s] = "killed"]
            /\ UNCHANGED <<buf, emitted, fs>>
       ELSE /\ WritesPipe(s) => Len(buf[OutPipe(s)]) < PipeCap
            /\ emitted' = IF IsSource(s) THEN emitted + 1 ELSE emitted
            /\ buf' = IF WritesPipe(s)
                      THEN [taken EXCEPT ![OutPipe(s)] = Append(@, tok)] ELSE taken
            /\ fs' = IF io[s].stdout = FileOut
                     THEN [fs EXCEPT ![PathOf(FileOut)].data = Append(@, tok)] ELSE fs
            /\ UNCHANGED proc
    /\ UNCHANGED <<pc, pipeline, i, pipes, pipe_fds, fdst, processes, threads,
                   redirect_files, io, dispatched, thr, result_holder, returncode,
                   joined, waited, opens, diag, cwd, ret>>

ChildExit(s) ==
    /\ s \in DOMAIN pipeline
    /\ proc[s] = "running"
    /\ IF IsSource(s) THEN emitted = DataLen
       ELSE buf[InPipe(s)] = <<>> /\ ~HasWriter(InPipe(s))
    /\ proc' = [proc EXCEPT ![s] = "exited"]
    /\ UNCHANGED <<pc, pipeline, i, pipes, pipe_fds, fdst, processes, threads,
                   redirect_files, io, dispatched, thr, result_holder, returncode,
                   joined, waited, buf, emitted, fs, opens, diag, cwd, ret>>

\* ------------------------------------------------- the garbage collector
\* A file object nobody references is closed by its finalizer when the
\* interpreter collects it: at once under reference counting, at some later
\* collection otherwise.  A collection finalizes every unreferenced object.
Orphans == {d \in Desc : fdst[d].st = "orphan"}

Collect ==
    /\ Orphans # {}
    /\ fdst' = Close(fdst, Orphans, "gc")
    /\ UNCHANGED <<pc, pipeline, i, pipes, pipe_fds, processes, threads,
                   redirect_files, io, dispatched, thr, proc, result_holder,
                   returncode, joined, waited, buf, emitted, fs, opens, diag, cwd, ret>>

Next ==
    \/ (pc = "idle" /\ \E p \in Pipelines : ExecutePipeline(p)) /\ UNCHANGED <<parsevars, runvars, modvars>>
    \/ Dispatch /\ UNCHANGED <<parsevars, runvars, modvars>>
    \/ CloseRemainingPipeFds /\ UNCHANGED <<parsevars, runvars, modvars>>
    \/ WaitForAllThreads /\ UNCHANGED <<parsevars, runvars, modvars>>
    \/ WaitForAllProcesses /\ UNCHANGED <<parsevars, runvars, modvars>>
    \/ CloseRedirectFilesAndReturn /\ UNCHANGED <<parsevars, runvars, modvars>>
    \/ (\E s \in StageIdx : BuiltinThread(s)) /\ UNCHANGED <<parsevars, runvars, modvars>>
    \/ (\E s \in StageIdx : ChildStep(s)) /\ UNCHANGED <<parsevars, runvars, modvars>>
    \/ (\E s \in StageIdx : ChildExit(s)) /\ UNCHANGED <<parsevars, runvars, modvars>>
    \/ Collect /\ UNCHANGED <<parsevars, runvars, modvars>>

Spec == Init /\ [][Next]_vars

\* ------------------------------------------ execute_pipeline: the pipes
\* execute_pipeline on the pipelines that name no redirect target, for the
\* claims about pipe descriptors and about termination.
PlainPipelines == UNION { [0..(n-1) -> PlainSegments] : n \in 0..MaxStages }

\* Every step of a call that has been made: the executor's, the threads',
\* the children's and the finalizers'.
Running ==
    \/ Dispatch /\ UNCHANGED <<parsevars, runvars, modvars>>
    \/ CloseRemainingPipeFds /\ UNCHANGED <<parsevars, runvars, modvars>>
    \/ WaitForAllThreads /\ UNCHANGED <<parsevars, runvars, modvars>>
    \/ WaitForAllProcesses /\ UNCHANGED <<parsevars, runvars, modvars>>
    \/ CloseRedirectFilesAndReturn /\ UNCHANGED <<parsevars, runvars, modvars>>
    \/ (\E s \in StageIdx : BuiltinThread(s)) /\ UNCHANGED <<parsevars, runvars, modvars>>
    \/ (\E s \in StageIdx : ChildStep(s)) /\ UNCHANGED <<parsevars, runvars, modvars>>
    \/ (\E s \in StageIdx : ChildExit(s)) /\ UNCHANGED <<parsevars, runvars, modvars>>
    \/ Collect /\ UNCHANGED <<parsevars, runvars, modvars>>

PipesNext ==
    \/ (pc = "idle" /\ \E p \in PlainPipelines : ExecutePipeline(p))
          /\ UNCHANGED <<parsevars, runvars, modvars>>
    \/ Running

SpecPipes == Init /\ [][PipesNext]_vars

\* The operating system schedules every thread and process that can take
\* a step, and a file object nobody references is finalized: as long as some
\* step of the call is possible, one is taken.
SpecPipesFair == SpecPipes /\ WF_vars(Running)

\* ------------------------------------- shell/execution.py: execute_shell
\* execute_shell(command) in interactive mode, from the parsed pipeline on:
\* a pipeline of two or more stages goes to execute_pipeline, a single
\* stage to execute_single_shell_command.

\* What a file that is there before the command holds.
Old == <<0, <<>>>>
\* The file system before the command: f and g exist and hold something,
\* the other paths do not exist.
InitialFs ==
    [p \in Paths |-> IF p \in {"f", "g"} THEN [exists |-> TRUE, data |-> <<Old>>]
                     ELSE [exists |-> FALSE, data |-> <<>>]]

ShellCmds == {"type", "cd", "exit", "cat", "nosuch", "noperm"}
ShellStdoutLists ==
    { <<>>,
      << <<"f", "w">> >>,
      << <<"f", "w">>, <<"h", "w">> >>,
      << <<"g", "a">>, <<"h", "w">> >>,
      << <<"h", "a">>, <<"f", "a">> >>,
      << <<"x", "w">> >>,
      << <<"f", "w">>, <<"x", "w">> >>,
      << <<"x", "w">>, <<"f", "w">> >> }
ShellStderrLists ==
    { <<>>,
      << <<"e", "w">> >>,
      << <<"k", "a">>, <<"e", "w">> >>,
      << <<"x", "w">> >> }
ShellSegments ==
    [parts : {<<c>> : c \in ShellCmds},
     stdout_redirs : ShellStdoutLists,
     stderr_redirs : ShellStderrLists]
PlainStage(c) == [parts |-> <<c>>, stdout_redirs |-> <<>>, stderr_redirs |-> <<>>]
\* Stages without a command word: redirections only ("> f", "2> e").
EmptyStages ==
    [parts : {<<>>},
     stdout_redirs : {<<>>, << <<"f", "w">> >>, << <<"g", "a">>, <<"h", "w">> >>},
     stderr_redirs : {<<>>, << <<"e", "w">> >>}] \
        {[parts |-> <<>>, stdout_redirs |-> <<>>, stderr_redirs |-> <<>>]}
\* The line without a stage, one stage, or two stages of which the last may
\* name targets; a stage without a command word alone, first or last.
ShellPipelines ==
    {<<>>} \cup
    { [j \in 0..0 |-> s] : s \in ShellSegments \cup EmptyStages } \cup
    { [j \in 0..1 |-> IF j = 0 THEN PlainStage(c) ELSE s] :
        c \in {"cat", "type", "noperm"}, s \in ShellSegments \cup EmptyStages } \cup
    { [j \in 0..1 |-> IF j = 0 THEN s ELSE PlainStage(c)] :
        c \in {"cat", "type"}, s \in EmptyStages }

ShellInit ==
    /\ pc = "idle" /\ pipeline = <<>> /\ i = 0 /\ pipes = {} /\ pipe_fds = {}
    /\ fdst = [d \in Desc |-> FreshFd]
    /\ processes = <<>> /\ threads = <<>> /\ redirect_files = <<>>
    /\ io = [s \in StageIdx |-> NoIo]
    /\ dispatched = {}
    /\ thr = [s \in StageIdx |-> "none"]
    /\ proc = [s \in StageIdx |-> "none"]
    /\ result_holder = [s \in StageIdx |-> 0]
    /\ returncode = <<>> /\ joined = {} /\ waited = {}
    /\ buf = [k \in 0..(MaxStages-2) |-> <<>>]
    /\ emitted = 0
    /\ fs = InitialFs
    /\ opens = <<>> /\ diag = {} /\ cwd = "start" /\ ret = 0
    /\ ParseIdle /\ RunIdle /\ ModIdle

\* execute_shell, lines 77-83: the branch on len(pipeline); pipeline[0] of
\* the empty list raises IndexError.
ExecuteShell(p) ==
    /\ pc = "idle"
    /\ IF Cardinality(DOMAIN p) > 1
       THEN ExecutePipeline(p)
       ELSE /\ pipeline' = p
            /\ pc' = IF Cardinality(DOMAIN p) = 0 THEN "raised" ELSE "single"
            /\ UNCHANGED <<i, pipes, pipe_fds, fdst, processes, threads, redirect_files,
                           io, dispatched, thr, proc, result_holder, returncode,
                           joined, waited, buf, emitted, fs, opens, diag, cwd, ret>>

\* parse_segment and the opening of the active targets, for one command:
\* specs are the targets in the order they are opened (the earlier stdout
\* targets, the earlier stderr targets, the active stdout target, the active
\* stderr target), files the handles of the active ones, bad the first
\* open() that raises.
SingleOpens(seg) ==
    LET primed == EarlierRedirects(seg.stdout_redirs) \o EarlierRedirects(seg.stderr_redirs)
        stdout_spec == get_active_redirect_spec(seg.stdout_redirs)
        stderr_spec == get_active_redirect_spec(seg.stderr_redirs)
        active == (IF stdout_spec # NoSpec THEN <<stdout_spec>> ELSE <<>>) \o
                  (IF stderr_spec # NoSpec THEN <<stderr_spec>> ELSE <<>>)
        files == (IF stdout_spec # NoSpec THEN <<FileOut>> ELSE <<>>) \o
                 (IF stderr_spec # NoSpec THEN <<FileErr>> ELSE <<>>)
        bad == FirstFailing(primed \o active)
        nprimed == IF bad = 0 \/ bad > Len(primed) THEN Len(primed) ELSE bad - 1
        nactive == IF bad = 0 THEN Len(active)
                   ELSE IF bad > Len(primed) THEN bad - 1 - Len(primed) ELSE 0
    IN  [primed |-> SubSeq(primed, 1, nprimed),
         active |-> SubSeq(active, 1, nactive),
         files |-> SubSeq(files, 1, nactive),
         bad |-> bad,
         in_priming |-> bad # 0 /\ bad <= Len(primed),
         failed |-> IF bad = 0 THEN "" ELSE (primed \o active)[bad][1]]

\* The statuses run_subprocess_with_redirects gives for a program that is
\* found and may be run: its own exit status, or 130 when Ctrl-C arrives
\* while it runs.
Interrupted == 130
NotFound == 127
NotExecutable == 126

\* execute_single_shell_command for an external command: execute_external
\* (parse_segment, open_redirect_file_handles, run_subprocess_with_redirects,
\* the finally clause) and the "command not found" of lines 50-52.
ExecuteExternal ==
    /\ pc = "single"
    /\ IF pipeline[0].parts = <<>> THEN TRUE ELSE ~is_builtin(Command(pipeline[0]))
    /\ LET seg == pipeline[0]
           cmd == Command(seg)
           o == SingleOpens(seg)
           handles == {o.files[m] : m \in 1..Len(o.files)}
       IN
       /\ fs' = IF o.bad = 0 /\ seg.parts # <<>> /\ OnPath(cmd) /\ FileOut \in handles
                THEN [OpenAll(OpenAll(fs, o.primed), o.active)
                        EXCEPT ![get_active_redirect_spec(seg.stdout_redirs)[1]].data =
                                   Append(@, SourceToken(1, 0))]
                ELSE OpenAll(OpenAll(fs, o.primed), o.active)
       /\ opens' = opens \o OpenEvents(o.primed, "prime", 0, FALSE)
                         \o OpenEvents(o.active, "active", 0, FALSE)
       /\ IF o.in_priming
          THEN \* prime_earlier_redirects raises: nothing catches it.
               /\ pc' = "raised"
               /\ UNCHANGED <<fdst, diag, ret, proc, dispatched>>
          ELSE IF o.bad # 0
          THEN \* open_redirect_file_handles closes what it opened and returns
               \* the error; execute_external prints it and returns 1.
               /\ fdst' = Close(fdst, handles, "exec")
               /\ diag' = diag \cup {<<"Redirect error", o.failed>>}
               /\ ret' = 1
               /\ pc' = "done"
               /\ UNCHANGED <<proc, dispatched>>
          ELSE IF seg.parts = <<>>
          THEN \* cmd is None, which is no builtin: subprocess.run([None]) raises
               \* TypeError, which run_subprocess_with_redirects does not catch;
               \* the finally clause closes the handles.
               /\ fdst' = Close(fdst, handles, "exec")
               /\ dispatched' = {0}
               /\ pc' = "raised"
               /\ UNCHANGED <<proc, diag, ret>>
          ELSE /\ fdst' = Close(fdst, handles, "exec")
               /\ dispatched' = {0}
               /\ pc' = "done"
               /\ IF OnPath(cmd)
                  THEN /\ \E rc \in ExitCodes \cup {Interrupted} :
                            /\ ret' = rc
                            /\ proc' = [proc EXCEPT ![0] =
                                  IF rc = Interrupted THEN "interrupted" ELSE "exited"]
                       /\ UNCHANGED diag
                  ELSE IF Denied(cmd)
                  THEN /\ diag' = diag \cup {<<cmd, "Permission denied">>}
                       /\ ret' = NotExecutable
                       /\ UNCHANGED proc
                  ELSE /\ diag' = diag \cup {<<cmd, "command not found">>}
                       /\ ret' = NotFound
                       /\ UNCHANGED proc
    /\ UNCHANGED <<pipeline, i, pipes, pipe_fds, processes, threads, redirect_files,
                   io, thr, result_holder, returncode, joined, waited, buf,
                   emitted, cwd>>

\* execute_single_shell_command for a builtin: execute_builtin(segment),
\* which opens the active targets itself, outside its try statement, runs
\* the builtin in the calling thread and closes the files it owns.
ExecuteBuiltinStandalone ==
    /\ pc = "single"
    /\ pipeline[0].parts # <<>>
    /\ is_builtin(Command(pipeline[0]))
    /\ LET seg == pipeline[0]
           cmd == Command(seg)
           o == SingleOpens(seg)
           handles == {o.files[m] : m \in 1..Len(o.files)}
           line == IF WritesLine(cmd) THEN <<SourceToken(1, 0)>> ELSE <<>>
       IN
       /\ opens' = opens \o OpenEvents(o.primed, "prime", 0, FALSE)
                         \o OpenEvents(o.active, "active", 0, FALSE)
       /\ IF o.bad # 0
          THEN \* open() raises in parse_segment or in lines 299-300; a stdout
               \* file already opened is referenced by nothing any more.
               /\ fs' = OpenAll(OpenAll(fs, o.primed), o.active)
               /\ fdst' = SetSt(fdst, handles, "orphan")
               /\ pc' = "raised"
               /\ UNCHANGED <<ret, dispatched, cwd>>
          ELSE /\ fs' = IF FileOut \in handles
                        THEN [OpenAll(OpenAll(fs, o.primed), o.active)
                                EXCEPT ![get_active_redirect_spec(seg.stdout_redirs)[1]].data =
                                           @ \o line]
                        ELSE OpenAll(OpenAll(fs, o.primed), o.active)
               /\ fdst' = Close(fdst, handles, "exec")
               /\ dispatched' = {0}
               /\ \E rc \in ExitCodes :
                    /\ cmd = "exit" => rc = 0
                    /\ ret' = rc
                    /\ cwd' \in IF cmd = "cd" /\ rc = 0 THEN {cwd, "elsewhere"} ELSE {cwd}
               /\ pc' = "done"
    /\ UNCHANGED <<pipeline, i, pipes, pipe_fds, processes, threads, redirect_files,
                   io, thr, proc, result_holder, returncode, joined, waited, buf,
                   emitted, diag>>

ShellNext ==
    \/ (pc = "idle" /\ \E p \in ShellPipelines : ExecuteShell(p)) /\ UNCHANGED <<parsevars, runvars, modvars>>
    \/ ExecuteExternal /\ UNCHANGED <<parsevars, runvars, modvars>>
    \/ ExecuteBuiltinStandalone /\ UNCHANGED <<parsevars, runvars, modvars>>
    \/ Dispatch /\ UNCHANGED <<parsevars, runvars, modvars>>
    \/ CloseRemainingPipeFds /\ UNCHANGED <<parsevars, runvars, modvars>>
    \/ WaitForAllThreads /\ UNCHANGED <<parsevars, runvars, modvars>>
    \/ WaitForAllProcesses /\ UNCHANGED <<parsevars, runvars, modvars>>
    \/ CloseRedirectFilesAndReturn /\ UNCHANGED <<parsevars, runvars, modvars>>
    \/ (\E s \in StageIdx : BuiltinThread(s)) /\ UNCHANGED <<parsevars, runvars, modvars>>
    \/ (\E s \in StageIdx : ChildStep(s)) /\ UNCHANGED <<parsevars, runvars, modvars>>
    \/ (\E s \in StageIdx : ChildExit(s)) /\ UNCHANGED <<parsevars, runvars, modvars>>
    \/ Collect /\ UNCHANGED <<parsevars, runvars, modvars>>

SpecShell == ShellInit /\ [][ShellNext]_vars

\* ------------------------------------------- redirections.py: parsing
MaxWords == 3

\* The words of a stage: two plain words and the six redirection operators.
RedirectOperators == {">", "1>", ">>", "1>>", "2>", "2>>"}
AppendOperators == {">>", "1>>", "2>>"}
StderrOperators == {"2>", "2>>"}
PlainWords == {"a", "b"}
Words == PlainWords \cup RedirectOperators
WordLists == UNION { [1..n -> Words] : n \in 0..MaxWords }

is_redirect_operator(token) == token \in RedirectOperators

\* A mode that never appends.
get_redirect_mode_truncate(op) == "w"
\* 'a' if operator.endswith('>>') else 'w'
get_redirect_mode(op) == IF op \in AppendOperators THEN "a" ELSE "w"

\* A redirect whose target also stays among the words of the command.
add_redirect_keeping_word(op, filename, acc) ==
    LET entry == <<filename, get_redirect_mode(op)>>
        kept == [acc EXCEPT !.cleaned = Append(@, filename)]
    IN  IF op \in StderrOperators
        THEN [kept EXCEPT !.stderr_redirs = Append(@, entry)]
        ELSE [kept EXCEPT !.stdout_redirs = Append(@, entry)]
\* operator.startswith('2') chooses the stderr list.
add_redirect(op, filename, acc) ==
    LET entry == <<filename, get_redirect_mode(op)>>
    IN  IF op \in StderrOperators
        THEN [acc EXCEPT !.stderr_redirs = Append(@, entry)]
        ELSE [acc EXCEPT !.stdout_redirs = Append(@, entry)]

\* The while loop of parse_redirection from index j (1-based) on.
RECURSIVE parse_from(_, _, _)
parse_from(ws, j, acc) ==
    IF j > Len(ws) THEN acc
    ELSE IF is_redirect_operator(ws[j])
    THEN (IF j + 1 > Len(ws) THEN acc
          ELSE parse_from(ws, j + 2, add_redirect(ws[j], ws[j + 1], acc)))
    ELSE parse_from(ws, j + 1, [acc EXCEPT !.cleaned = Append(@, ws[j])])

parse_redirection(ws) == parse_from(ws, 1, EmptyParse)

RedirInit ==
    /\ ExecInit /\ RunIdle /\ ModIdle
    /\ fn_pc = "input"
    /\ parts \in WordLists
    /\ command = <<>> /\ tokens = <<>> /\ token_segments = <<>> /\ segments = <<>>
    /\ lines = <<>>
    /\ parsed = EmptyParse /\ reparsed = EmptyParse

ParseRedirection ==
    /\ fn_pc = "input"
    /\ parsed' = parse_redirection(parts)
    /\ fn_pc' = "parsed"
    /\ UNCHANGED <<command, tokens, token_segments, segments, lines, parts, reparsed>>
    /\ UNCHANGED <<execvars, runvars, modvars>>

\* build_pipeline_segments keeps the cleaned words as the stage's parts; the
\* function applied to them once more.
ParseCleaned ==
    /\ fn_pc = "parsed"
    /\ reparsed' = parse_redirection(parsed.cleaned)
    /\ fn_pc' = "reparsed"
    /\ UNCHANGED <<command, tokens, token_segments, segments, lines, parts, parsed>>
    /\ UNCHANGED <<execvars, runvars, modvars>>

RedirNext == ParseRedirection \/ ParseCleaned

SpecRedir == RedirInit /\ [][RedirNext]_vars

\* ------------------------------------- tokenizer.py: control-flow split
MaxLineLen == 4

\* Characters of a command line: a letter, a blank, the operator
\* characters, the two quotes and the backslash.
SQ == "'"
DQ == "\""
BS == "\\"
Chars == {"a", " ", "&", "|", ";", SQ, DQ, BS}
Lines == UNION { [1..n -> Chars] : n \in 0..MaxLineLen }

\* str.strip() for the one whitespace character of Chars.
RECURSIVE lstrip(_)
lstrip(str) == IF str # <<>> /\ Head(str) = " " THEN lstrip(Tail(str)) ELSE str
RECURSIVE rstrip(_)
rstrip(str) ==
    IF str # <<>> /\ str[Len(str)] = " " THEN rstrip(SubSeq(str, 1, Len(str) - 1)) ELSE str
strip(str) == rstrip(lstrip(str))

\* Positions are 1-based here: position j is command[j-1] of the source.
NoOp == "None"
check_and_or(cmd, j) ==
    IF j < Len(cmd) /\ cmd[j] = cmd[j + 1] /\ cmd[j] \in {"&", "|"}
    THEN (IF cmd[j] = "&" THEN "&&" ELSE "||")
    ELSE NoOp

update_quote_state(char, in_single_quote, in_double_quote) ==
    IF char = SQ /\ ~in_double_quote THEN <<~in_single_quote, in_double_quote>>
    ELSE IF char = DQ /\ ~in_single_quote THEN <<in_single_quote, ~in_double_quote>>
    ELSE <<in_single_quote, in_double_quote>>

\* add_segment(segments, current_op, command, start, end) for command[start:end],
\* which is positions start .. end-1.
add_segment(segs, current_op, cmd, start, end) ==
    LET segment == strip(SubSeq(cmd, start, end - 1))
    IN  IF segment # <<>> THEN Append(segs, <<current_op, segment>>) ELSE segs

\* The while loop of split_command_by_and_or from position j on; st holds
\* segments, current_start, current_op and the two quote flags.
RECURSIVE split_loop(_, _, _)
split_loop(cmd, j, st) ==
    IF j > Len(cmd) THEN st
    ELSE IF cmd[j] = BS /\ st.in_double_quote /\ j + 1 <= Len(cmd)
    THEN split_loop(cmd, j + 2, st)
    ELSE
      LET q == update_quote_state(cmd[j], st.in_single_quote, st.in_double_quote)
          quoted == [st EXCEPT !.in_single_quote = q[1], !.in_double_quote = q[2]]
          two_char_op == check_and_or(cmd, j)
      IN  IF q[1] \/ q[2] THEN split_loop(cmd, j + 1, quoted)
          ELSE IF two_char_op # NoOp
          THEN split_loop(cmd, j + 2,
                 [quoted EXCEPT
                    !.segments = add_segment(@, st.current_op, cmd, st.current_start, j),
                    !.current_op = two_char_op,
                    !.current_start = j + 2])
          ELSE IF cmd[j] = ";"
          THEN split_loop(cmd, j + 1,
                 [quoted EXCEPT
                    !.segments = add_segment(@, st.current_op, cmd, st.current_start, j),
                    !.current_op = ";",
                    !.current_start = j + 1])
          ELSE split_loop(cmd, j + 1, quoted)

split_command_by_and_or(cmd) ==
    LET st == split_loop(cmd, 1,
                [segments |-> <<>>, current_start |-> 1, current_op |-> NoOp,
                 in_single_quote |-> FALSE, in_double_quote |-> FALSE])
        all == add_segment(st.segments, st.current_op, cmd, st.current_start, Len(cmd) + 1)
    IN  IF all # <<>> THEN all ELSE << <<NoOp, cmd>> >>

SplitInit ==
    /\ ExecInit /\ RunIdle /\ ModIdle
    /\ fn_pc = "input"
    /\ command \in Lines
    /\ tokens = <<>> /\ token_segments = <<>> /\ segments = <<>>
    /\ lines = <<>>
    /\ parts = <<>> /\ parsed = EmptyParse /\ reparsed = EmptyParse

SplitCommandByAndOr ==
    /\ fn_pc = "input"
    /\ segments' = split_command_by_and_or(command)
    /\ fn_pc' = "split"
    /\ UNCHANGED <<command, tokens, token_segments, lines, parts, parsed, reparsed>>
    /\ UNCHANGED <<execvars, runvars, modvars>>

SplitNext == SplitCommandByAndOr

SpecSplit == SplitInit /\ [][SplitNext]_vars

\* ------------------------------------------ tokenizer.py: tokens, pipes
\* Characters of a line to tokenize: "a" stands for every character that
\* is neither whitespace, quote nor backslash and is not the pipe.
TokChars == {"a", " ", "|", SQ, DQ, BS}
TokLines == UNION { [1..n -> TokChars] : n \in 0..MaxLineLen }

\* shlex.split(command) in POSIX mode (whitespace_split, no comments) as one
\* left-to-right scan.  state is "ws" (between words), "word", SQ or DQ
\* (inside quotes) or "esc" (after a backslash, escapedstate says where
\* from); token is the word read so far, quoted whether a quote was seen in
\* it and inq whether a character of it was read inside quotes; out is the
\* list of <<word, inq>> read, err the ValueError.
ShlexStart ==
    [state |-> "ws", escapedstate |-> "word", token |-> <<>>, quoted |-> FALSE,
     inq |-> FALSE, out |-> <<>>, err |-> FALSE]
Emit(st) ==
    [st EXCEPT !.out = Append(@, <<st.token, st.inq>>),
               !.token = <<>>, !.quoted = FALSE, !.inq = FALSE]

shlex_char(st, c) ==
    IF st.state = "ws"
    THEN (IF c = " " THEN st
          ELSE IF c = BS THEN [st EXCEPT !.escapedstate = "word", !.state = "esc"]
          ELSE IF c \in {SQ, DQ} THEN [st EXCEPT !.state = c]
          ELSE [st EXCEPT !.token = <<c>>, !.state = "word"])
    ELSE IF st.state \in {SQ, DQ}
    THEN (IF c = st.state THEN [st EXCEPT !.quoted = TRUE, !.state = "word"]
          ELSE IF c = BS /\ st.state = DQ
          THEN [st EXCEPT !.quoted = TRUE, !.escapedstate = DQ, !.state = "esc"]
          ELSE [st EXCEPT !.quoted = TRUE, !.inq = TRUE, !.token = Append(@, c)])
    ELSE IF st.state = "esc"
    THEN (IF st.escapedstate = DQ /\ c # BS /\ c # DQ
          THEN [st EXCEPT !.token = @ \o <<BS, c>>, !.inq = TRUE, !.state = DQ]
          ELSE [st EXCEPT !.token = Append(@, c), !.inq = @ \/ st.escapedstate = DQ,
                          !.state = st.escapedstate])
    ELSE \* "word"
         (IF c = " "
          THEN (IF st.token # <<>> \/ st.quoted
                THEN [Emit(st) EXCEPT !.state = "ws"]
                ELSE [st EXCEPT !.state = "ws"])
          ELSE IF c \in {SQ, DQ} THEN [st EXCEPT !.state = c]
          ELSE IF c = BS THEN [st EXCEPT !.escapedstate = "word", !.state = "esc"]
          ELSE [st EXCEPT !.token = Append(@, c)])

\* End of input: "No closing quotation", "No escaped character", or the
\* last word.
shlex_eof(st) ==
    IF st.state \in {SQ, DQ, "esc"} THEN [st EXCEPT !.err = TRUE]
    ELSE IF st.state = "word" /\ (st.token # <<>> \/ st.quoted) THEN Emit(st)
    ELSE st

RECURSIVE shlex_scan(_, _, _)
shlex_scan(cmd, j, st) ==
    IF j > Len(cmd) THEN shlex_eof(st) ELSE shlex_scan(cmd, j + 1, shlex_char(st, cmd[j]))

shlex_split(cmd) == shlex_scan(cmd, 1, ShlexStart)

\* str.split(): the maximal runs of non-blank characters.
RECURSIVE str_split(_, _, _)
str_split(cmd, j, acc) ==
    IF j > Len(cmd)
    THEN (IF acc.word # <<>> THEN Append(acc.out, acc.word) ELSE acc.out)
    ELSE IF cmd[j] = " "
    THEN str_split(cmd, j + 1,
            [out |-> IF acc.word # <<>> THEN Append(acc.out, acc.word) ELSE acc.out,
             word |-> <<>>])
    ELSE str_split(cmd, j + 1, [acc EXCEPT !.word = Append(@, cmd[j])])

\* try: shlex.split(command)  except ValueError: command.split()
tokenize_command(cmd) ==
    LET r == shlex_split(cmd)
    IN  IF r.err THEN str_split(cmd, 1, [out |-> <<>>, word |-> <<>>])
        ELSE [m \in 1..Len(r.out) |-> r.out[m][1]]

IsPipeToken(token) == token = <<"|">>

\* split_by_pipes: the loop over the tokens, then the last segment.
RECURSIVE split_by_pipes_from(_, _, _)
split_by_pipes_from(toks, j, acc) ==
    IF j > Len(toks)
    THEN (IF acc.current # <<>> THEN Append(acc.segments, acc.current) ELSE acc.segments)
    ELSE IF IsPipeToken(toks[j])
    THEN split_by_pipes_from(toks, j + 1,
            [segments |-> IF acc.current # <<>> THEN Append(acc.segments, acc.current)
                          ELSE acc.segments,
             current |-> <<>>])
    ELSE split_by_pipes_from(toks, j + 1, [acc EXCEPT !.current = Append(@, toks[j])])

split_by_pipes(toks) == split_by_pipes_from(toks, 1, [segments |-> <<>>, current |-> <<>>])

TokInit ==
    /\ ExecInit /\ RunIdle /\ ModIdle
    /\ fn_pc = "input"
    /\ command \in TokLines
    /\ tokens = <<>> /\ token_segments = <<>> /\ segments = <<>>
    /\ lines = <<>>
    /\ parts = <<>> /\ parsed = EmptyParse /\ reparsed = EmptyParse

\* parse_pipeline_into_segments: tokenize_command, then split_by_pipes.
TokenizeCommand ==
    /\ fn_pc = "input"
    /\ tokens' = tokenize_command(command)
    /\ fn_pc' = "tokens"
    /\ UNCHANGED <<command, token_segments, segments, lines, parts, parsed, reparsed>>
    /\ UNCHANGED <<execvars, runvars, modvars>>

SplitByPipes ==
    /\ fn_pc = "tokens"
    /\ token_segments' = split_by_pipes(tokens)
    /\ fn_pc' = "stages"
    /\ UNCHANGED <<command, tokens, segments, lines, parts, parsed, reparsed>>
    /\ UNCHANGED <<execvars, runvars, modvars>>

\* ---------------------------------------- parsing/pipeline.py: segments
\* A token as the word parse_redirection sees: its characters in one string.
RECURSIVE Join(_)
Join(token) == IF token = <<>> THEN "" ELSE Head(token) \o Join(Tail(token))

\* build_pipeline_segments: one segment per token segment, its redirections
\* parsed off; the list is indexed from 0 as pipeline[i] is.
build_pipeline_segments(tsegs) ==
    [j \in 0..(Len(tsegs) - 1) |->
        LET ws == tsegs[j + 1]
            r == parse_redirection([m \in 1..Len(ws) |-> Join(ws[m])])
        IN  [parts |-> r.cleaned, stdout_redirs |-> r.stdout_redirs,
             stderr_redirs |-> r.stderr_redirs]]

\* parse_pipeline_into_segments returns build_pipeline_segments(token_segments).
BuildPipelineSegments ==
    /\ fn_pc = "stages"
    /\ pipeline' = build_pipeline_segments(token_segments)
    /\ fn_pc' = "pipeline"
    /\ UNCHANGED <<command, tokens, token_segments, segments, lines, parts, parsed, reparsed>>
    /\ UNCHANGED <<pc, i, pipes, pipe_fds, fdst, processes, threads,
                   redirect_files, io, dispatched, thr, proc, result_holder,
                   returncode, joined, waited, buf, emitted, fs, opens, diag, cwd, ret>>
    /\ UNCHANGED <<runvars, modvars>>

TokNext == TokenizeCommand \/ SplitByPipes \/ BuildPipelineSegments

SpecTok == TokInit /\ [][TokNext]_vars

\* --------------------------- shell/execution.py: lines of a command
NL == "\n"
\* Characters of a command of several lines.
NlChars == {"a", NL, SQ, DQ, BS}
NlCommands == UNION { [1..n -> NlChars] : n \in 0..MaxLineLen }

\* The for loop of split_on_unquoted_newlines from position j on; st holds
\* lines, current and the two quote flags.
RECURSIVE newline_loop(_, _, _)
newline_loop(cmd, j, st) ==
    IF j > Len(cmd) THEN st
    ELSE LET q == update_quote_state(cmd[j], st.in_single, st.in_double)
             quoted == [st EXCEPT !.in_single = q[1], !.in_double = q[2]]
         IN  IF cmd[j] = NL /\ ~q[1] /\ ~q[2]
             THEN newline_loop(cmd, j + 1,
                     [quoted EXCEPT !.lines = Append(@, st.current), !.current = <<>>])
             ELSE newline_loop(cmd, j + 1, [quoted EXCEPT !.current = Append(@, cmd[j])])

split_on_unquoted_newlines(cmd) ==
    LET st == newline_loop(cmd, 1,
                [lines |-> <<>>, current |-> <<>>, in_single |-> FALSE, in_double |-> FALSE])
    IN  IF st.current # <<>> THEN Append(st.lines, st.current) ELSE st.lines

LinesInit ==
    /\ ExecInit /\ RunIdle /\ ModIdle
    /\ fn_pc = "input"
    /\ command \in NlCommands
    /\ tokens = <<>> /\ token_segments = <<>> /\ segments = <<>>
    /\ lines = <<>>
    /\ parts = <<>> /\ parsed = EmptyParse /\ reparsed = EmptyParse

SplitOnUnquotedNewlines ==
    /\ fn_pc = "input"
    /\ lines' = split_on_unquoted_newlines(command)
    /\ fn_pc' = "lines"
    /\ UNCHANGED <<command, tokens, token_segments, segments, parts, parsed, reparsed>>
    /\ UNCHANGED <<execvars, runvars, modvars>>

LinesNext == SplitOnUnquotedNewlines

SpecLines == LinesInit /\ [][LinesNext]_vars

\* ------------------------------------------ commands/history.py: history
\* deque(maxlen=1000), with a maximum small enough to be reached.
Maxlen == 3
MaxAdds == 5

\* deque.append: at maxlen the oldest entry is dropped.
deque_append(dq, x) ==
    IF Len(dq) = Maxlen THEN Append(Tail(dq), x) ELSE Append(dq, x)

HistoryInit == ExecInit /\ ParseIdle /\ RunIdle /\ ModIdle

\* add_to_history(command), for the next command.
AddToHistory ==
    /\ added < MaxAdds
    /\ added' = added + 1
    /\ command_history' = deque_append(command_history, added + 1)
    /\ unsaved' = Append(unsaved, added + 1)
    /\ UNCHANGED <<last_appended_index, history_files, appended>>
    /\ UNCHANGED <<execvars, parsevars, runvars, envvars>>

\* append_history_to_file(filepath): cmds[last_appended_index:] is written
\* and the index set to len(cmds), when there is something to write.
AppendHistoryToFile(filepath) ==
    /\ LET cmds == command_history
           new_cmds == SubSeq(cmds, last_appended_index + 1, Len(cmds))
       IN  /\ IF new_cmds # <<>>
              THEN /\ history_files' = [history_files EXCEPT ![filepath] = @ \o new_cmds]
                   /\ last_appended_index' = Len(cmds)
              ELSE UNCHANGED <<history_files, last_appended_index>>
           /\ appended' = [filepath |-> filepath, new_cmds |-> new_cmds, due |-> unsaved,
                           held |-> LET InHistory(c) == \E m \in 1..Len(cmds) : cmds[m] = c
                                    IN  SelectSeq(unsaved, InHistory)]
    /\ unsaved' = <<>>
    /\ UNCHANGED <<command_history, added>>
    /\ UNCHANGED <<execvars, parsevars, runvars, envvars>>

HistoryNext ==
    \/ AddToHistory
    \/ \E filepath \in HistFiles : AppendHistoryToFile(filepath)

SpecHistory == HistoryInit /\ [][HistoryNext]_vars

\* ------------------------------- commands/builtins.py: virtual environments
\* Arguments of activate: directories that hold a virtual environment, the
\* default .venv of the working directory among them, and one that does not
\* (os.path.isdir(bin_dir) is false).
VenvPaths == {"/venv_a", "/venv_b", "/cwd/.venv"}
\* How many activates in a row, without a deactivate, are followed.
MaxChain == 3
ActivateArgs == VenvPaths \cup {"/nodir"}
BinDir(venv_path) == venv_path \o "/bin"

\* The environment the shell is started in: outside any virtual
\* environment, or inside one that its parent process activated.
InitialEnvirons ==
    { [PATH |-> p, VIRTUAL_ENV |-> <<>>, PYTHONHOME |-> h] :
        p \in {<<"/usr/bin">>, <<"/usr/local/bin", "/usr/bin">>},
        h \in {<<>>, <<"/home">>} } \cup
    { [PATH |-> <<"/inherited/bin", "/usr/bin">>, VIRTUAL_ENV |-> <<"/inherited">>,
       PYTHONHOME |-> <<>>] }

\* handle_deactivate() on st = [environ, oldvars]: the state after it and
\* what it returns.
handle_deactivate(st) ==
    IF st.environ.VIRTUAL_ENV = <<>>
    THEN [ok |-> FALSE, environ |-> st.environ, oldvars |-> st.oldvars]
    ELSE [ok |-> TRUE,
          environ |-> [st.environ EXCEPT
                          !.PATH = IF st.oldvars # <<>> THEN st.oldvars[1] ELSE @,
                          !.VIRTUAL_ENV = <<>>],
          oldvars |-> <<>>]

\* An activate that does not deactivate the active environment first.
handle_activate_over_active(st, venv_path) ==
    IF venv_path \notin VenvPaths
    THEN [ok |-> FALSE, environ |-> st.environ, oldvars |-> st.oldvars]
    ELSE [ok |-> TRUE,
          environ |-> [PATH |-> <<BinDir(venv_path)>> \o st.environ.PATH,
                       VIRTUAL_ENV |-> <<venv_path>>,
                       PYTHONHOME |-> <<>>],
          oldvars |-> <<st.environ.PATH>>]
\* handle_activate(args) on st = [environ, oldvars].
handle_activate(st, venv_path) ==
    IF venv_path \notin VenvPaths
    THEN [ok |-> FALSE, environ |-> st.environ, oldvars |-> st.oldvars]
    ELSE LET d == IF st.environ.VIRTUAL_ENV # <<>> THEN handle_deactivate(st) ELSE st
         IN  [ok |-> TRUE,
              environ |-> [PATH |-> <<BinDir(venv_path)>> \o d.environ.PATH,
                           VIRTUAL_ENV |-> <<venv_path>>,
                           PYTHONHOME |-> <<>>],
              oldvars |-> <<d.environ.PATH>>]

VenvInit ==
    /\ ExecInit /\ ParseIdle /\ RunIdle /\ HistIdle
    /\ environ \in InitialEnvirons
    /\ venv_oldvars = <<>>
    /\ chain_path = <<>>
    /\ last_call = NoCall

\* The activate builtin with one argument.
Activate(venv_path) ==
    /\ IF chain_path = <<>> \/ venv_path \notin VenvPaths THEN TRUE
       ELSE chain_path[2] < MaxChain
    /\ LET r == handle_activate([environ |-> environ, oldvars |-> venv_oldvars], venv_path)
       IN  /\ environ' = r.environ
           /\ venv_oldvars' = r.oldvars
           /\ last_call' = [op |-> "activate", arg |-> venv_path, ok |-> r.ok,
                            before |-> environ, chain |-> chain_path]
           /\ chain_path' = IF ~r.ok THEN chain_path
                            ELSE IF chain_path = <<>> THEN <<environ.PATH, 1>>
                            ELSE <<chain_path[1], chain_path[2] + 1>>
    /\ UNCHANGED <<execvars, parsevars, runvars, histvars>>

\* The deactivate builtin.
Deactivate ==
    /\ LET r == handle_deactivate([environ |-> environ, oldvars |-> venv_oldvars])
       IN  /\ environ' = r.environ
           /\ venv_oldvars' = r.oldvars
           /\ last_call' = [op |-> "deactivate", arg |-> "", ok |-> r.ok,
                            before |-> environ, chain |-> chain_path]
           /\ chain_path' = IF r.ok THEN <<>> ELSE chain_path
    /\ UNCHANGED <<execvars, parsevars, runvars, histvars>>

VenvNext ==
    \/ \E venv_path \in ActivateArgs : Activate(venv_path)
    \/ Deactivate

SpecVenv == VenvInit /\ [][VenvNext]_vars

\* ------------------------------------- orchestration/runner.py: a line
MaxSegs == 3

\* The segments of a line, by what execute_segment makes of them:
\*   "command"      one shell command, builtin or external, that is not exit
\*   "pipeline"     a shell command of two stages, run by execute_pipeline
\*   "exit"         the exit builtin with an argument (exit 0)
\*   "bare_exit"    the word exit alone
\*   "python"       code of the embedded language that calls no shell command
\*   "syntax_error" text that transform_code_with_expansions rejects
SegmentKinds == {"command", "pipeline", "exit", "bare_exit", "python", "syntax_error"}
Operators == {"&&", "||", ";"}
CommandStatuses == {0, 1, 127}

Stage(cmd) == [parts |-> <<cmd>>, stdout_redirs |-> <<>>, stderr_redirs |-> <<>>]
RunPipelines ==
    { [j \in 0..1 |-> Stage(cmds[j + 1])] : cmds \in {<<"cat", "type">>, <<"type", "cat">>} }

\* A skip for || only.
should_skip_only_or(op, last_rc) == op = "||" /\ last_rc = 0
\* A skip for && only.
should_skip_only_and(op, last_rc) == op = "&&" /\ last_rc # 0
should_skip_segment(op, last_rc) ==
    \/ op = "&&" /\ last_rc # 0
    \/ op = "||" /\ last_rc = 0

\* namespace.get('__last_returncode__', 0)
namespace_get(ns) == IF ns = <<>> THEN 0 ELSE ns[1]

RunInit == ExecInit /\ ParseIdle /\ RunIdle /\ ModIdle

\* run_command(command): a new line; the namespace is the shell's and stays.
RunCommand ==
    /\ run_pc \in {"idle", "returned"}
    /\ run_pc' = "loop"
    /\ last_returncode' = 0
    /\ seg_no' = 0
    /\ operator' = NoOp
    /\ cmd_segment' = "none"
    /\ outcome' = NoOutcome
    /\ exit_ran' = FALSE
    /\ ran_after_exit' = FALSE
    /\ UNCHANGED namespace
    /\ UNCHANGED <<execvars, parsevars, modvars>>

\* One iteration of the for loop: execute_segment for the next segment of
\* the line, whose operator is op and whose text is of kind kind.  rc is the
\* status a shell command ends with; ok whether embedded code runs without
\* an exception; as_python whether the word exit names a Python object (it
\* does when the interpreter's site module has put exit among the builtins).
TakeSegment(op, kind, rc, ok, as_python) ==
    /\ run_pc = "loop"
    /\ seg_no < MaxSegs
    /\ seg_no > 0 => op # NoOp
    /\ seg_no' = seg_no + 1
    /\ operator' = op
    /\ cmd_segment' = kind
    /\ LET taken == [before |-> last_returncode, ns_before |-> namespace,
                     prev |-> IF outcome.what \in {"none", "skipped"} THEN outcome.what
                              ELSE IF cmd_segment = "pipeline" THEN "pipeline"
                              ELSE "other"]
           Done(what, own) == [what |-> what, own |-> own] @@ taken
           shell_exit == kind = "exit" \/ (kind = "bare_exit" /\ ~as_python)
       IN
       IF should_skip_segment(op, last_returncode)
       THEN /\ outcome' = Done("skipped", 0)
            /\ UNCHANGED <<run_pc, last_returncode, namespace, exit_ran, ran_after_exit>>
       ELSE /\ ran_after_exit' = (ran_after_exit \/ exit_ran)
            /\ exit_ran' = (exit_ran \/ kind \in {"exit", "bare_exit"})
            /\ IF kind = "pipeline"
               THEN /\ run_pc' = "shell"
                    /\ outcome' = Done("running", 0)
                    /\ UNCHANGED <<last_returncode, namespace>>
               ELSE IF kind = "command"
               THEN /\ namespace' = <<rc>>
                    /\ last_returncode' = rc
                    /\ outcome' = Done("ran", rc)
                    /\ UNCHANGED run_pc
               ELSE IF shell_exit
               THEN \* run_builtin returns (True, 0); shell stores 0 and calls sys.exit(0)
                    /\ namespace' = <<0>>
                    /\ run_pc' = "exited"
                    /\ outcome' = Done("ran", 0)
                    /\ UNCHANGED last_returncode
               ELSE IF kind = "syntax_error"
               THEN /\ last_returncode' = 1
                    /\ outcome' = Done("ran", 1)
                    /\ UNCHANGED <<run_pc, namespace>>
               ELSE \* embedded code: the result of execute_python is not used
                    /\ last_returncode' = namespace_get(namespace)
                    /\ outcome' = Done("ran", IF ok \/ kind = "bare_exit" THEN 0 ELSE 1)
                    /\ UNCHANGED <<run_pc, namespace>>
    /\ UNCHANGED <<execvars, parsevars, modvars>>

\* execute_shell hands a command of more than one stage to execute_pipeline.
CallPipeline(p) ==
    /\ run_pc = "shell"
    /\ ExecutePipeline(p)
    /\ UNCHANGED <<parsevars, runvars, modvars>>

\* execute_pipeline has returned: shell() stores the status in the namespace,
\* execute_segment reads it back, and the locals of execute_pipeline are gone.
ShellReturns ==
    /\ run_pc = "shell"
    /\ pc = "done"
    /\ namespace' = <<ret>>
    /\ last_returncode' = ret
    /\ outcome' = [outcome EXCEPT !.what = "ran", !.own = ret]
    /\ run_pc' = "loop"
    /\ pc' = "idle" /\ pipeline' = <<>> /\ i' = 0 /\ pipes' = {} /\ pipe_fds' = {}
    /\ fdst' = [d \in Desc |-> FreshFd]
    /\ processes' = <<>> /\ threads' = <<>> /\ redirect_files' = <<>>
    /\ io' = [s \in StageIdx |-> NoIo]
    /\ dispatched' = {}
    /\ thr' = [s \in StageIdx |-> "none"]
    /\ proc' = [s \in StageIdx |-> "none"]
    /\ result_holder' = [s \in StageIdx |-> 0]
    /\ returncode' = <<>>
    /\ joined' = {} /\ waited' = {}
    /\ buf' = [k \in 0..(MaxStages-2) |-> <<>>]
    /\ emitted' = 0 /\ opens' = <<>> /\ ret' = 0
    /\ UNCHANGED <<fs, diag, cwd>>
    /\ UNCHANGED <<operator, cmd_segment, seg_no, exit_ran, ran_after_exit>>
    /\ UNCHANGED <<parsevars, modvars>>

\* The loop is over: return False.
RunReturns ==
    /\ run_pc = "loop"
    /\ seg_no >= 1
    /\ run_pc' = "returned"
    /\ UNCHANGED <<operator, cmd_segment, seg_no, last_returncode, namespace,
                   outcome, exit_ran, ran_after_exit>>
    /\ UNCHANGED <<execvars, parsevars, modvars>>

RunNext ==
    \/ RunCommand
    \/ \E op \in Operators \cup {NoOp}, kind \in SegmentKinds :
          \E rc \in (IF kind = "command" THEN CommandStatuses ELSE {0}),
             ok \in (IF kind = "python" THEN BOOLEAN ELSE {TRUE}),
             as_python \in (IF kind = "bare_exit" THEN BOOLEAN ELSE {FALSE}) :
                TakeSegment(op, kind, rc, ok, as_python)
    \/ \E p \in RunPipelines : CallPipeline(p)
    \/ ShellReturns
    \/ RunReturns
    \/ (run_pc = "shell" /\ Dispatch) /\ UNCHANGED <<parsevars, runvars, modvars>>
    \/ (run_pc = "shell" /\ CloseRemainingPipeFds) /\ UNCHANGED <<parsevars, runvars, modvars>>
    \/ (run_pc = "shell" /\ WaitForAllThreads) /\ UNCHANGED <<parsevars, runvars, modvars>>
    \/ (run_pc = "shell" /\ WaitForAllProcesses) /\ UNCHANGED <<parsevars, runvars, modvars>>
    \/ (run_pc = "shell" /\ CloseRedirectFilesAndReturn) /\ UNCHANGED <<parsevars, runvars, modvars>>
    \/ (\E s \in StageIdx : BuiltinThread(s)) /\ UNCHANGED <<parsevars, runvars, modvars>>
    \/ (\E s \in StageIdx : ChildStep(s)) /\ UNCHANGED <<parsevars, runvars, modvars>>
    \/ (\E s \in StageIdx : ChildExit(s)) /\ UNCHANGED <<parsevars, runvars, modvars>>
    \/ Collect /\ UNCHANGED <<parsevars, runvars, modvars>>

SpecRun == RunInit /\ [][RunNext]_vars

\* ------------------------------------------------------------ the claims
IsEmptyStage(s) == pipeline[s].parts = <<>>
IsBuiltinStage(s) == ~IsEmptyStage(s) /\ Command(pipeline[s]) \in Builtins
IsFoundStage(s) == ~IsEmptyStage(s) /\ Command(pipeline[s]) = "cat"
IsMissingStage(s) == ~IsEmptyStage(s) /\ Command(pipeline[s]) = "nosuch"

\* The pipeline has more than one stage and one of them is cd or exit.
PolicyError == N > 1 /\ Offenders(pipeline) # {}
\* execute_pipeline was called with a pipeline it accepts.
Accepted == pc # "idle" /\ N >= 1 /\ ~PolicyError
Returned == pc = "done"

\* The exit status of stage s of a pipeline that has returned.
StageStatus(s) ==
    IF IsBuiltinStage(s) THEN result_holder[s]
    ELSE IF IsFoundStage(s) THEN returncode[s]
    ELSE 127

SeqSet(seq) == {seq[m] : m \in 1..Len(seq)}

\* C1: for a pipeline of n >= 1 non-empty stages, builtins and external
\* programs in any mix, execute_pipeline returns the exit status of the last
\* stage.
C1_ReturnsLastStageStatus ==
    (Returned /\ Accepted /\ \A s \in DOMAIN pipeline : IsBuiltinStage(s) \/ IsFoundStage(s))
        => ret = StageStatus(N - 1)

\* C2: in a multi-stage pipeline whose last stage is an external command that
\* is not found, a diagnostic is printed and execute_pipeline returns 127.
C2_NotFoundLastReturns127 ==
    (Returned /\ Accepted /\ N > 1 /\ IsMissingStage(N - 1))
        => /\ <<"nosuch", "command not found">> \in diag
           /\ ret = 127

\* C3: when spawning a stage fails with command-not-found, every other
\* non-empty stage is still dispatched, and has been joined or waited to
\* completion when execute_pipeline returns.
C3_NoSiblingCancelled ==
    (Returned /\ Accepted /\ \E m \in DOMAIN pipeline : IsMissingStage(m))
        => \A s \in DOMAIN pipeline :
              /\ ~IsEmptyStage(s) => s \in dispatched
              /\ IsBuiltinStage(s) => thr[s] = "finished" /\ s \in joined
              /\ IsFoundStage(s) => proc[s] \in {"exited", "killed"} /\ s \in waited

C3_Witness ==
    /\ Returned /\ N = 3
    /\ IsFoundStage(0) /\ IsMissingStage(1) /\ IsBuiltinStage(2)
    /\ 0 \in waited /\ 2 \in joined

\* C4: a pipeline of more than one stage with cd or exit at any position is
\* refused with "cannot be used in pipeline" and a non-zero status, and has
\* no effect: no pipe, no redirect target primed or opened, no thread, no
\* subprocess, and the working directory unchanged.
C4_PolicyErrorHasNoEffect ==
    PolicyError =>
        /\ Returned /\ ret # 0
        /\ \E c \in {"cd", "exit"} : <<c, "cannot be used in pipeline">> \in diag
        /\ pipes = {} /\ pipe_fds = {}
        /\ \A d \in Desc : fdst[d].st = "none"
        /\ opens = <<>>
        /\ \A p \in Paths : ~fs[p].exists
        /\ threads = <<>> /\ processes = <<>>
        /\ \A s \in StageIdx : thr[s] = "none" /\ proc[s] = "none"
        /\ cwd = "start"

C4_Witness ==
    /\ Returned /\ N = 3
    /\ IsFoundStage(0) /\ ~IsEmptyStage(1) /\ Command(pipeline[1]) = "cd"
    /\ Len(pipeline[2].stdout_redirs) = 2
    /\ ret = 1

\* C5: the executor has joined every builtin thread before it waits on any
\* subprocess, and closes the redirect files only after the joins and the
\* waits.
C5_JoinThenWaitThenClose ==
    /\ (pc = "wait" \/ waited # {}) => joined = SeqSet(threads)
    /\ (\E d \in {FileOut, FileErr} : "exec" \in fdst[d].by)
          => joined = SeqSet(threads) /\ waited = SeqSet(processes)

C5_Witness ==
    /\ Returned /\ threads # <<>> /\ processes # <<>>
    /\ joined = SeqSet(threads) /\ waited = SeqSet(processes)
    /\ "exec" \in fdst[FileOut].by

\* C6: a descriptor or file object handed to a builtin task or a subprocess
\* is not closed or used by the executor afterwards, so none is closed twice.
C6_NoDoubleClose ==
    \A d \in Desc :
        /\ Cardinality(fdst[d].by) <= 1
        /\ fdst[d].given = "task" => "exec" \notin fdst[d].by

PipeEnds(s) == {d \in {io[s].stdin, io[s].stdout} : IsPipeFd(d)}

C8_PipeWiring ==
    Accepted =>
        /\ Cardinality(pipes) = N - 1
        /\ \A s \in dispatched :
              /\ io[s].stdin = (IF s = 0 THEN None ELSE PipeR(s - 1))
              /\ s < N - 1 => io[s].stdout = PipeW(s)
              /\ \A d \in PipeEnds(s) : d[1] \in pipes
        /\ \A s, t \in dispatched : s # t => PipeEnds(s) \cap PipeEnds(t) = {}
        /\ \A k \in pipes : \A m \in 1..Len(buf[k]) : Last(buf[k][m][2]) = k

C8_Witness ==
    /\ Returned /\ N = 3 /\ dispatched = {0, 1, 2}
    /\ io[1].stdin = PipeR(0) /\ io[1].stdout = PipeW(1)
    /\ io[2].stdin = PipeR(1)

\* C9: only the last stage is bound to redirect files: its stdout is its
\* active stdout redirect if it has one and the shell's stdout otherwise,
\* its stderr its active stderr redirect if it has one; a stage that is not
\* the last writes to pipe i and has no stderr redirect, also when it names
\* redirect targets.
ActivePath(redirs) == redirs[Len(redirs)][1]

C9_RedirectsBindLastStageOnly ==
    /\ \A s \in dispatched :
          IF s = N - 1
          THEN /\ io[s].stdout = (IF pipeline[s].stdout_redirs # <<>> THEN FileOut ELSE None)
               /\ io[s].stderr = (IF pipeline[s].stderr_redirs # <<>> THEN FileErr ELSE None)
          ELSE /\ io[s].stdout = PipeW(s)
               /\ io[s].stderr = None
    /\ \A m \in 1..Len(opens) :
          opens[m].how = "active" =>
              /\ opens[m].stage = N - 1
              /\ opens[m].path \in
                    {ActivePath(r) : r \in {pipeline[N-1].stdout_redirs,
                                            pipeline[N-1].stderr_redirs} \ {<<>>}}
    /\ \A p \in Paths : \A m \in 1..Len(fs[p].data) : Last(fs[p].data[m][2]) = N - 1

C9_Witness ==
    /\ Returned /\ N >= 2
    /\ pipeline[0].stdout_redirs # <<>> /\ pipeline[0].stderr_redirs # <<>>
    /\ 0 \in dispatched /\ io[0].stdout = PipeW(0) /\ io[0].stderr = None

\* C10: in a pipeline of three or more stages whose last stage redirects
\* stdout to a file, the file holds, when execute_pipeline returns, the
\* output of the first stage passed through each later stage in order.  A
\* builtin writes its own line whatever its input; a command that is not
\* found, or an empty stage, writes nothing.
RECURSIVE Output(_)
Output(s) ==
    IF IsEmptyStage(s) \/ IsMissingStage(s) THEN <<>>
    ELSE IF IsBuiltinStage(s)
    THEN (IF WritesLine(Command(pipeline[s])) THEN <<SourceToken(1, s)>> ELSE <<>>)
    ELSE IF s = 0 THEN [k \in 1..DataLen |-> SourceToken(k, 0)]
    ELSE [m \in 1..Len(Output(s - 1)) |-> Through(Output(s - 1)[m], s)]

C10_FileHoldsPipelineOutput ==
    (Returned /\ Accepted /\ N >= 3 /\ ~IsEmptyStage(N - 1)
       /\ pipeline[N-1].stdout_redirs # <<>>)
        => LET f == fs[ActivePath(pipeline[N-1].stdout_redirs)]
           IN  f.exists /\ f.data = Output(N - 1)

C10_Witness ==
    /\ Returned /\ N = 3 /\ \A s \in 0..2 : IsFoundStage(s)
    /\ fs["f"].data = <<<<1, <<0, 1, 2>>>>, <<2, <<0, 1, 2>>>>>>

\* The role of each word of a list, by position: a redirection operator
\* that is not itself the target of the operator before it is an "op", the
\* word after an "op" is its "file", every other word is a "word".
RECURSIVE Role(_, _)
Role(ws, j) ==
    IF j >= 2 /\ Role(ws, j - 1) = "op" THEN "file"
    ELSE IF ws[j] \in RedirectOperators THEN "op"
    ELSE "word"

\* The positions 1..n in increasing order.
Idx(n) == [j \in 1..n |-> j]

ExpectedRedirs(ws, ops) ==
    LET IsTarget(j) == j >= 2 /\ Role(ws, j) = "file" /\ ws[j - 1] \in ops
        at == SelectSeq(Idx(Len(ws)), IsTarget)
    IN  [m \in 1..Len(at) |->
            <<ws[at[m]], IF ws[at[m] - 1] \in {">>", "1>>", "2>>"} THEN "a" ELSE "w">>]
ExpectedCleaned(ws) ==
    LET IsWord(j) == Role(ws, j) = "word"
        at == SelectSeq(Idx(Len(ws)), IsWord)
    IN  [m \in 1..Len(at) |-> ws[at[m]]]

C20_ParseRedirectionIdempotent ==
    fn_pc = "reparsed" =>
        /\ reparsed.cleaned = parsed.cleaned
        /\ reparsed.stdout_redirs = <<>>
        /\ reparsed.stderr_redirs = <<>>

C20_Witness ==
    /\ fn_pc = "reparsed"
    /\ parts = <<">", ">", "a">>
    /\ parsed.stdout_redirs = << <<">", "w">> >>
    /\ reparsed.cleaned = <<"a">>

\* Whether position j of a line lies outside quotes, read left to right:
\* QuoteBefore(cmd, j) is <<in single quotes, in double quotes, escaped>> for
\* the character at j, where escaped says that the character is consumed by a
\* backslash inside double quotes.
RECURSIVE QuoteBefore(_, _)
QuoteBefore(cmd, j) ==
    IF j = 1 THEN <<FALSE, FALSE, FALSE>>
    ELSE LET b == QuoteBefore(cmd, j - 1)
             c == cmd[j - 1]
         IN  IF b[3] THEN <<b[1], b[2], FALSE>>
             ELSE IF c = BS /\ b[2] THEN <<b[1], b[2], TRUE>>
             ELSE IF c = SQ /\ ~b[2] THEN <<~b[1], b[2], FALSE>>
             ELSE IF c = DQ /\ ~b[1] THEN <<b[1], ~b[2], FALSE>>
             ELSE <<b[1], b[2], FALSE>>
Unquoted(cmd, j) ==
    LET b == QuoteBefore(cmd, j) IN ~b[1] /\ ~b[2] /\ ~b[3] /\ cmd[j] \notin {SQ, DQ}

\* The operator that starts at position j, reading the unquoted operator
\* characters left to right without overlap: "&&", "||", ";" or NoOp.
RECURSIVE OperatorAt(_, _)
OperatorAt(cmd, j) ==
    IF ~Unquoted(cmd, j) THEN NoOp
    ELSE IF j >= 2 /\ OperatorAt(cmd, j - 1) \in {"&&", "||"} THEN NoOp
    ELSE IF cmd[j] = ";" THEN ";"
    ELSE IF j < Len(cmd) /\ cmd[j] = "&" /\ cmd[j + 1] = "&" THEN "&&"
    ELSE IF j < Len(cmd) /\ cmd[j] = "|" /\ cmd[j + 1] = "|" THEN "||"
    ELSE NoOp
OperatorWidth(op) == IF op = ";" THEN 1 ELSE 2

\* The pieces between the operators of a line, each with the operator
\* before it, trimmed, the empty ones dropped.
ExpectedSegments(cmd) ==
    LET IsOp(j) == OperatorAt(cmd, j) # NoOp
        at == SelectSeq(Idx(Len(cmd)), IsOp)
        n == Len(at)
        from(m) == IF m = 0 THEN 1 ELSE at[m] + OperatorWidth(OperatorAt(cmd, at[m]))
        upto(m) == IF m = n THEN Len(cmd) ELSE at[m + 1] - 1
        piece(m) == <<IF m = 0 THEN NoOp ELSE OperatorAt(cmd, at[m]),
                      strip(SubSeq(cmd, from(m), upto(m)))>>
        all == [m \in 1..(n + 1) |-> piece(m - 1)]
        NonEmpty(pc_) == pc_[2] # <<>>
    IN  SelectSeq(all, NonEmpty)

\* C17: split_command_by_and_or splits a line at exactly the occurrences of
\* &&, || and ; outside single and double quotes (a backslash inside double
\* quotes consumes the next character); an operator inside quotes never
\* splits, one | is not ||, and each segment records the operator before it.
\* A line without such an operator is one segment.
C17_SplitsAtUnquotedOperators ==
    fn_pc = "split" =>
        IF \E j \in 1..Len(command) : OperatorAt(command, j) # NoOp
        THEN segments = ExpectedSegments(command)
        ELSE /\ Len(segments) = 1
             /\ segments[1][1] = NoOp
             /\ strip(segments[1][2]) = strip(command)

\* C18: every segment returned by split_command_by_and_or has a text that
\* is not empty and has no blank at either end, and the first segment
\* returned has operator None.
C18_SegmentsTrimmedFirstNone ==
    fn_pc = "split" =>
        /\ \A m \in 1..Len(segments) :
              LET text == segments[m][2]
              IN  text # <<>> /\ text[1] # " " /\ text[Len(text)] # " "
        /\ segments # <<>> => segments[1][1] = NoOp

\* The loop of run_command has taken a segment and execute_segment has
\* decided about it.
Taken == outcome.what # "none"
\* The taken segment was skipped and the skip changed nothing: the running
\* status and the namespace are what they were, and execute_pipeline was
\* not entered.
SkippedWithoutEffect ==
    /\ outcome.what = "skipped"
    /\ last_returncode = outcome.before
    /\ namespace = outcome.ns_before
    /\ run_pc \in {"loop", "returned"}
    /\ pc = "idle"

\* C11: a segment preceded by && is not executed when the previous status
\* is non-zero: nothing of it runs and the running status is unchanged, so
\* that in A && B || C with A failing, B is skipped and C runs.
C11_AndSkipsAfterFailure ==
    (Taken /\ operator = "&&" /\ outcome.before # 0) => SkippedWithoutEffect

C11_Witness ==
    /\ seg_no = 3 /\ operator = "||" /\ outcome.what = "ran"
    /\ outcome.prev = "skipped" /\ outcome.before # 0
    /\ cmd_segment = "command"

\* C12: a segment preceded by || is not executed when the previous status
\* is zero, and the skip leaves the running status unchanged; a segment
\* preceded by ; or by no operator is always executed.
C12_OrSkipsAfterSuccess ==
    /\ (Taken /\ operator = "||" /\ outcome.before = 0) => SkippedWithoutEffect
    /\ (Taken /\ operator \in {";", NoOp}) => outcome.what \in {"running", "ran"}

C12_Witness ==
    /\ seg_no = 3 /\ operator = ";" /\ outcome.what = "ran" /\ outcome.before = 0
    /\ outcome.prev = "skipped"

\* C13: after a segment has been executed, the status used for the next
\* segment's short-circuit decision is the status that segment's own
\* execution produced, whether the pipeline engine or the embedded language
\* handled it and whether it succeeded or failed.
C13_StatusIsTheSegmentsOwn ==
    (run_pc \in {"loop", "returned"} /\ outcome.what = "ran")
        => last_returncode = outcome.own

\* C14: the loop over the segments stops early only when an executed
\* segment is the exit builtin: once an exit segment has executed no later
\* segment of the line is executed and a shell exit is signalled; an exit
\* segment skipped by && or || neither stops the loop nor exits the shell.
C14_ExitStopsTheLine ==
    /\ exit_ran => (run_pc = "exited" /\ ~ran_after_exit)
    /\ run_pc = "exited" => exit_ran
    /\ (cmd_segment \in {"exit", "bare_exit"} /\ outcome.what = "skipped") => run_pc # "exited"

\* C15: the segments of a line never run concurrently: when execute_pipeline
\* returns, every builtin thread and every subprocess of the segment has
\* finished, and the loop takes the next segment only after that.
NoWorkerAlive == \A s \in StageIdx : thr[s] # "running" /\ proc[s] # "running"
WellFormed(cmd) == ~shlex_split(cmd).err

\* The words of a line cut into stages at the words that are a lone |
\* written without quotes; a stage without words is no stage.
RECURSIVE StagesFrom(_, _, _, _)
StagesFrom(ws, j, done, cur) ==
    IF j > Len(ws) THEN (IF cur # <<>> THEN Append(done, cur) ELSE done)
    ELSE IF ws[j] = << <<"|">>, FALSE >>
    THEN StagesFrom(ws, j + 1, IF cur # <<>> THEN Append(done, cur) ELSE done, <<>>)
    ELSE StagesFrom(ws, j + 1, done, Append(cur, ws[j][1]))
ExpectedStages(cmd) == StagesFrom(shlex_split(cmd).out, 1, <<>>, <<>>)

\* C16: for a well-formed line, the stages that tokenize_command followed by
\* split_by_pipes produce are bounded by exactly the | that stand outside
\* quotes: a | inside single or double quotes, a quoted word that is just |
\* included, starts no stage, and every unquoted lone | does.
C16_StagesAtUnquotedPipes ==
    (fn_pc = "stages" /\ WellFormed(command)) => token_segments = ExpectedStages(command)

\* The open() calls made for stage s on the targets of one of its redirect
\* lists, in the order they were made.
OpensFor(s, redirs) ==
    LET Named(e) == e.stage = s /\ \E n \in 1..Len(redirs) : redirs[n][1] = e.path
    IN  SelectSeq(opens, Named)

\* One stream of a stage was handled as its redirect list asks: one open per
\* target, in order, every target but the last primed and the last active;
\* afterwards every target exists and only the last holds output.
StreamOpened(s, redirs) ==
    LET done == OpensFor(s, redirs)
        k == Len(redirs)
    IN  /\ Len(done) = k
        /\ \A n \in 1..k :
              /\ done[n].path = redirs[n][1]
              /\ done[n].mode = redirs[n][2]
              /\ done[n].how = (IF n < k THEN "prime" ELSE "active")
              /\ fs[redirs[n][1]].exists
              /\ n < k => fs[redirs[n][1]].data = <<>>

\* C21: for every executed stage, at every position of the pipeline, a
\* redirect list of length k >= 1 on a stream leads to exactly k opens for
\* that stream: the first k-1 targets are primed, the last is opened as the
\* active target, only the active target receives output, and every named
\* target exists afterwards.
C21_OpensEveryTarget ==
    Returned =>
        \A s \in {t \in dispatched : thr[t] # "none" \/ proc[t] # "none"} :
            /\ StreamOpened(s, pipeline[s].stdout_redirs)
            /\ StreamOpened(s, pipeline[s].stderr_redirs)

\* C22: parse_pipeline_into_segments returns a pipeline of at least one
\* stage for every line; a line with no non-empty stage (the empty line, a
\* line of pipe characters only) yields one stage with an empty command.
C22_PipelineHasAStage ==
    fn_pc = "pipeline" =>
        /\ Cardinality(DOMAIN pipeline) >= 1
        /\ token_segments = <<>> =>
              pipeline = (0 :> [parts |-> <<>>, stdout_redirs |-> <<>>, stderr_redirs |-> <<>>])

\* The stage whose status is the status of the command: the last one.
LastStage == N - 1
\* The spawn of stage s was attempted.
Attempted(s) == s \in dispatched /\ pipeline[s].parts # <<>>

\* C23: a stage whose command is not found yields 127, a stage whose spawn
\* fails with a permission error yields 126 with a diagnostic, an interrupt
\* while the stage runs yields 130, for a simple command and for a stage of
\* a pipeline alike, and the error never leaves the executor as an exception.
C23_ResolutionErrorStatus ==
    /\ \A s \in DOMAIN pipeline :
          (Attempted(s) /\ Denied(Command(pipeline[s]))) =>
              /\ pc # "raised"
              /\ <<Command(pipeline[s]), "Permission denied">> \in diag
    /\ (pc = "done" /\ Accepted /\ Attempted(LastStage)) =>
          LET cmd == Command(pipeline[LastStage]) IN
          /\ Denied(cmd) => ret = NotExecutable
          /\ (~is_builtin(cmd) /\ ~OnPath(cmd) /\ ~Denied(cmd)) => ret = NotFound
          /\ proc[LastStage] = "interrupted" => ret = Interrupted

\* Opening the active redirect target of the command's last stage failed:
\* a simple command that got that far, or a pipeline whose dispatch loop
\* was left at its last stage.
ActiveOpenFailed ==
    /\ pc \in {"done", "raised"} /\ Accepted
    /\ N > 1 => (pc = "raised" /\ i = LastStage)
    /\ pipeline[LastStage].parts # <<>>
    /\ SingleOpens(pipeline[LastStage]).bad # 0
    /\ ~SingleOpens(pipeline[LastStage]).in_priming

\* C24: when opening a redirect target fails, for a simple external
\* command, a standalone builtin or the last stage of a pipeline, the stage
\* does not run, the command returns a non-zero status, and every redirect
\* handle already opened for the stage is closed on that path.
C24_RedirectFailureHandled ==
    ActiveOpenFailed =>
        /\ pc = "done" /\ ret # 0
        /\ LastStage \notin dispatched
        /\ \A d \in {FileOut, FileErr} : fdst[d].st \in {"none", "closed"}

\* The earlier targets of a stage: every entry of its two redirect lists
\* but the last of each.
EarlierTargets(seg) ==
    EarlierRedirects(seg.stdout_redirs) \o EarlierRedirects(seg.stderr_redirs)
\* The stages whose redirects were prepared by a command that has returned.
Prepared == IF N = 1 THEN {0} ELSE {s \in dispatched : pipeline[s].parts # <<>>}

\* C30: after execution an earlier target named with >, 1> or 2> exists and
\* is empty, and one named with >>, 1>> or 2>> exists and holds what it held
\* before (nothing if it was not there); no earlier target holds output.
C30_PrimingAppliesMode ==
    (pc = "done" /\ Accepted) =>
        \A s \in Prepared :
            LET earlier == EarlierTargets(pipeline[s]) IN
            \A n \in 1..Len(earlier) :
                /\ fs[earlier[n][1]].exists
                /\ fs[earlier[n][1]].data =
                      (IF earlier[n][2] = "w" THEN <<>> ELSE InitialFs[earlier[n][1]].data)

C30_Witness ==
    /\ pc = "done" /\ N = 1 /\ Command(pipeline[0]) = "cat" /\ ret = 0
    /\ pipeline[0].stdout_redirs = << <<"g", "a">>, <<"h", "w">> >>
    /\ pipeline[0].stderr_redirs = << <<"k", "a">>, <<"e", "w">> >>
    /\ fs["g"].data = <<Old>> /\ fs["k"] = [exists |-> TRUE, data |-> <<>>]
    /\ fs["h"].data = <<SourceToken(1, 0)>>

\* C28: a builtin stage that writes to a pipe has flushed and closed its
\* pipe write end by the time its thread finishes, on every exit path, a
\* failed flush included.
C28_BuiltinClosesItsWriteEnd ==
    \A s \in DOMAIN pipeline :
        (thr[s] = "finished" /\ IsPipeFd(io[s].stdout)) =>
            /\ fdst[io[s].stdout].st = "closed"
            /\ "task" \in fdst[io[s].stdout].by

\* C29: every priming open of a redirect target is made before any stage of
\* the same pipeline has been started as a thread or a subprocess.
C29_PrimingBeforeAnyStageStarts ==
    \A m \in 1..Len(opens) : opens[m].how = "prime" => ~opens[m].concurrent

\* C25: for every external stage that was spawned, the parent's copies of
\* the stage's pipe read end and pipe write end have been closed by the
\* executor and removed from pipe_fds before the next stage is dispatched.
C25_ParentClosesAfterSpawn ==
    \A s \in DOMAIN pipeline :
        proc[s] # "none" =>
            \A d \in PipeEnds(s) :
                /\ fdst[d].st = "closed"
                /\ fdst[d].by = {"exec"}
                /\ d \notin pipe_fds

C25_Witness ==
    /\ pc = "loop" /\ N = 3 /\ i = 2
    /\ proc[1] = "running"
    /\ PipeEnds(1) = {PipeR(0), PipeW(1)}
    /\ fdst[PipeR(0)].st = "closed" /\ fdst[PipeW(1)].st = "closed"
    /\ fdst[PipeR(1)].st = "exec"

\* The executor has gone past close_remaining_pipe_fds.
AtJoinOrLater == Accepted /\ pc \in {"join", "wait", "close_files", "done"}

\* C26: when the executor starts its first join or wait it holds no open
\* pipe descriptor: every pipe end has been handed to a builtin task, closed
\* after a spawn, or closed by close_remaining_pipe_fds, the ends of skipped
\* empty stages and of stages that failed to spawn included.
C26_NoPipeEndHeldAtJoin ==
    AtJoinOrLater =>
        \A k \in pipes : \A d \in {PipeR(k), PipeW(k)} :
            \/ fdst[d].st = "closed" /\ "exec" \in fdst[d].by
            \/ fdst[d].st # "exec" /\ \E s \in DOMAIN pipeline :
                  thr[s] # "none" /\ d \in PipeEnds(s)

C26_Witness ==
    /\ pc = "join" /\ joined = {} /\ N = 3
    /\ pipeline[0].parts = <<"type">> /\ fdst[PipeW(0)].st = "task"
    /\ pipeline[1].parts = <<>>
    /\ pipeline[2].parts = <<"nosuch">>
    /\ \A d \in {PipeR(0), PipeW(1), PipeR(1)} :
          fdst[d].st = "closed" /\ fdst[d].by = {"exec"}

\* C27: every call of execute_pipeline returns, whatever the pipeline and
\* the interleaving of its threads and children, given that every builtin
\* returns and every external program exits at end of input or when nobody
\* reads its output: no join or wait blocks for ever.
C27_ExecutePipelineReturns == (pc # "idle") ~> (pc = "done")

C27_Witness ==
    /\ pc = "done" /\ N = 3
    /\ threads # <<>> /\ Len(processes) = 2
    /\ \E s \in DOMAIN pipeline : proc[s] = "killed"
    /\ joined = {threads[m] : m \in 1..Len(threads)}
    /\ waited = {processes[m] : m \in 1..Len(processes)}

\* C31: a stage whose command is empty is never dispatched: it is neither
\* run as a builtin nor passed to a process spawn, as the only stage of a
\* line and as one stage of a pipeline alike, and it raises no error.
C31_EmptyStageNeverDispatched ==
    \A s \in DOMAIN pipeline :
        IsEmptyStage(s) =>
            /\ s \notin dispatched
            /\ thr[s] = "none" /\ proc[s] = "none"
            /\ ~(pc = "raised" /\ i = s)

\* The status the stages' own statuses determine: that of the last external
\* stage that was spawned, else that of the last builtin stage, else 0.
SpawnedStages == {s \in DOMAIN pipeline : IsFoundStage(s)}
BuiltinStages == {s \in DOMAIN pipeline : IsBuiltinStage(s)}
Highest(S) == CHOOSE s \in S : \A t \in S : t <= s
StatusFromStages ==
    IF SpawnedStages # {} THEN returncode[Highest(SpawnedStages)]
    ELSE IF BuiltinStages # {} THEN result_holder[Highest(BuiltinStages)]
    ELSE 0

\* C32: exit-status propagation is deterministic: what execute_pipeline
\* returns is a function of the pipeline and of the exit statuses of its
\* stages, the same under every interleaving of the builtin threads, the
\* subprocesses and the executor's close and wait steps.
C32_StatusIsAFunctionOfTheStages ==
    (Returned /\ Accepted) => ret = StatusFromStages

C32_Witness ==
    /\ Returned /\ N = 3
    /\ IsFoundStage(0) /\ IsBuiltinStage(1) /\ IsFoundStage(2)
    /\ waited = {0, 2} /\ joined = {1}
    /\ proc[0] = "killed" /\ result_holder[1] = 1 /\ returncode[2] = 0
    /\ ret = 0

\* The stage whose status get_pipeline_returncode reads: the last process
\* if there is one, else the last thread.
ReadsProcess == processes # <<>>
ReadsThread == processes = <<>> /\ threads # <<>>

\* C33: the executor reads a thread's result_holder, and a subprocess's
\* returncode, only after that thread has been joined or that process has
\* been waited for: no status is read while the stage may still write it.
C33_StatusReadAfterJoinOrWait ==
    (Returned /\ Accepted) =>
        /\ ReadsProcess =>
              /\ Last(processes) \in waited
              /\ proc[Last(processes)] \in {"exited", "killed"}
        /\ ReadsThread =>
              /\ Last(threads) \in joined
              /\ thr[Last(threads)] = "finished"

C33_Witness ==
    /\ Returned /\ N = 2
    /\ processes = <<>> /\ threads = <<0, 1>>
    /\ joined = {0, 1}
    /\ result_holder[0] = 0 /\ result_holder[1] = 1
    /\ ret = 1

\* How the shell's tokenizer reads the character at position j of a
\* command: "out" (outside quotes), SQ or DQ (inside such quotes), "esc_out"
\* or "esc_dq" (after a backslash outside quotes or inside double quotes).
RECURSIVE ShellQuoteAt(_, _)
ShellQuoteAt(cmd, j) ==
    IF j = 1 THEN "out"
    ELSE LET b == ShellQuoteAt(cmd, j - 1)
             c == cmd[j - 1]
         IN  IF b = "out"
             THEN (IF c = BS THEN "esc_out" ELSE IF c \in {SQ, DQ} THEN c ELSE "out")
             ELSE IF b = "esc_out" THEN "out"
             ELSE IF b = SQ THEN (IF c = SQ THEN "out" ELSE SQ)
             ELSE IF b = DQ
             THEN (IF c = DQ THEN "out" ELSE IF c = BS THEN "esc_dq" ELSE DQ)
             ELSE DQ
UnquotedNewline(cmd, j) == cmd[j] = NL /\ ShellQuoteAt(cmd, j) \in {"out", "esc_out"}

\* The pieces of a command between its newlines outside quotes, the empty
\* ones kept, but for an empty piece after the last newline.
ExpectedLines(cmd) ==
    LET IsCut(j) == UnquotedNewline(cmd, j)
        at == SelectSeq(Idx(Len(cmd)), IsCut)
        n == Len(at)
        from(m) == IF m = 0 THEN 1 ELSE at[m] + 1
        upto(m) == IF m = n THEN Len(cmd) ELSE at[m + 1] - 1
        all == [m \in 1..(n + 1) |-> SubSeq(cmd, from(m - 1), upto(m - 1))]
    IN  IF all[n + 1] = <<>> THEN SubSeq(all, 1, n) ELSE all

\* '\n'.join(pieces)
RECURSIVE JoinLines(_)
JoinLines(ls) ==
    IF ls = <<>> THEN <<>>
    ELSE IF Len(ls) = 1 THEN ls[1]
    ELSE ls[1] \o <<NL>> \o JoinLines(Tail(ls))

\* Joining the pieces gives the command back, apart from one newline at
\* its end.
Rejoins(cmd, ls) ==
    \/ JoinLines(ls) = cmd
    \/ JoinLines(ls) \o <<NL>> = cmd

\* C34: split_on_unquoted_newlines splits a command exactly at the newlines
\* that lie outside single and double quotes: a newline inside quotes never
\* splits, empty lines between two newlines are kept as empty strings, and
\* joining the pieces with a newline reproduces the input (apart from one
\* trailing newline).
C34_SplitsAtUnquotedNewlines ==
    fn_pc = "lines" =>
        /\ lines = ExpectedLines(command)
        /\ Rejoins(command, lines)

\* The same on the commands without a backslash.
C34_WithoutBackslash ==
    (fn_pc = "lines" /\ \A j \in 1..Len(command) : command[j] # BS) =>
        /\ lines = ExpectedLines(command)
        /\ Rejoins(command, lines)

\* The rejoining alone.
C34_Rejoins == fn_pc = "lines" => Rejoins(command, lines)

\* C35: for any sequence of add_to_history and append_history_to_file
\* calls, every command added since the previous append (and still in the
\* history) is written to the file exactly once by the next
\* append_history_to_file, also after the history has reached its maximum
\* length and started dropping its oldest entries.
C35_AppendWritesWhatWasAdded ==
    appended.filepath # "" => appended.new_cmds = appended.held

\* The same while the history has never been full.
C35_BeforeTheHistoryIsFull ==
    (appended.filepath # "" /\ added <= Maxlen) => appended.new_cmds = appended.due

\* C36: for any sequence of activate and deactivate builtins, activate
\* while another environment is active included, a successful deactivate
\* restores PATH to the value it had before the first activate of the
\* current chain and removes VIRTUAL_ENV, and a failed activate (invalid
\* path) leaves PATH and VIRTUAL_ENV unchanged.
C36_DeactivateRestoresPath ==
    /\ (last_call.op = "deactivate" /\ last_call.ok) =>
          /\ environ.VIRTUAL_ENV = <<>>
          /\ last_call.chain # <<>> => environ.PATH = last_call.chain[1]
    /\ (last_call.op = "activate" /\ ~last_call.ok) =>
          /\ environ.PATH = last_call.before.PATH
          /\ environ.VIRTUAL_ENV = last_call.before.VIRTUAL_ENV

C36_Witness ==
    /\ last_call.op = "deactivate" /\ last_call.ok
    /\ last_call.chain = << <<"/inherited/bin", "/usr/bin">>, 3 >>
    /\ last_call.before.VIRTUAL_ENV = <<"/venv_b">>
    /\ environ.PATH = <<"/inherited/bin", "/usr/bin">>
    /\ environ.VIRTUAL_ENV = <<>>

====
